---- MODULE Spec2Model ----
(***************************************************************************)
(* A model of the mwahaha-vote web application (src/web/src/mwahahavote):  *)
(* the votes ledger, the vote recorder (vote_route, add_vote), the battle  *)
(* selector (random_least_voted_unseen_battles), the fallback sampler      *)
(* (random_battles) and the route that serves a batch (battles_route,      *)
(* _get_battle_objects).                                                   *)
(*                                                                         *)
(* Rows of the votes table carry no date column here: NOW() is read by no  *)
(* statement of the model.  Every prompt of the model belongs to the one   *)
(* phase PHASE_ID, so the phase_id = :phase_id filters are always true.    *)
(* Python's random module is a nondeterministic choice.                    *)
(***************************************************************************)
EXTENDS Integers, Sequences, FiniteSets, TLC

VARIABLES
    outputs,   \* the outputs table: (prompt_id, system_id) -> text, or NoOutput
    votes,     \* the votes table (the ledger): a set of rows, unique on VoteKey
    pending,   \* add_vote background tasks scheduled by vote_route, not yet run
    req,       \* the battles call being served, or the last one served
    http,      \* the last response sent by vote_route
    ingest,    \* the last ingest_submission call: its arguments and what it raised
    systems,   \* the systems table: the set of its system IDs
    scoring,   \* the read of the scoring scripts in progress, or the last one
    script,    \* the run of the ingest_submissions script: its local variables
    conn       \* per path, the request in CacheControlMiddleware or the last one that
               \* went through it: what it carried, the session_id of the middleware,
               \* its request.state.session_id and the Set-Cookie of its response

vars == <<outputs, votes, pending, req, http, ingest, systems, scoring, script, conn>>

(***************************************************************************)
(* Bounds of the model.                                                    *)
(***************************************************************************)
MaxVotes == 2      \* rows the ledger may hold
MaxPending == 1    \* add_vote background tasks waiting at one time
MaxBatch == 2      \* largest batch_size a client asks for
MaxSpin == 2       \* the counter of fruitless scans of the queue wraps after it

Systems == {"S1", "S2", "S3", "S4", "S|5"}
Prompts == {"en_1", "en_2", "es_1"}
Sessions == {"X", "Y"}
NoOutput == "none"
SameText == "same"

OutputIds == Prompts \X Systems

\* database.py:19-20
TASK_CHOICES == {"a-en", "a-es", "a-zh", "b1", "b2"}

\* database.py:147-148
VOTE_CHOICES == {"a", "b", "n", "t"}

\* __main__.py:42
REQUEST_BATTLE_BATCH_SIZE == 16

\* prompt_id_to_task (database.py:34-42), on the prompt IDs of the model.
prompt_id_to_task(prompt_id) ==
    CASE prompt_id \in {"en_1", "en_2"} -> "a-en"
      [] prompt_id = "es_1" -> "a-es"

(***************************************************************************)
(* The outputs tables of the model.  A system is absent, or has an output  *)
(* for every prompt of the tasks it takes part in (ingestion accepts a     *)
(* file only with the task's whole prompt set).  Its text for a prompt is  *)
(* its own (the system's ID stands for it) or a text shared with others.   *)
(***************************************************************************)
Profiles == {"own", "sameP1", "same"}

ProfileText(profile, p, s) ==
    CASE profile = "own" -> s
      [] profile = "sameP1" -> IF p = "en_1" THEN SameText ELSE s
      [] profile = "same" -> IF prompt_id_to_task(p) = "a-en" THEN SameText ELSE s

\* The table in which the systems of `present` have outputs: S1 and S2 with the
\* texts of `profile`, S3 with its own.
TableOf(present, profile) ==
    [o \in OutputIds |->
        IF o[2] \notin present THEN NoOutput
        ELSE IF o[2] = "S3" THEN o[2]
        ELSE ProfileText(profile, o[1], o[2])]

PresentSystems == { {}, {"S1"}, {"S1", "S2"}, {"S1", "S2", "S3"} }

SelectTables == { TableOf(present, profile) : present \in PresentSystems, profile \in Profiles }

(***************************************************************************)
(* Small helpers.                                                          *)
(***************************************************************************)
Min(a, b) == IF a <= b THEN a ELSE b
Max(a, b) == IF a >= b THEN a ELSE b

RECURSIVE SumOver(_, _)
SumOver(f, S) ==
    IF S = {} THEN 0
    ELSE LET x == CHOOSE y \in S : TRUE IN f[x] + SumOver(f, S \ {x})

\* All orders a list of the elements of S can be in after random.shuffle.
Shuffles(S) ==
    { q \in [1..Cardinality(S) -> S] : \A x \in S : \E i \in DOMAIN q : q[i] = x }

\* Python's tuple comparison on 4-tuples of integers: a <= b.
TupleLeq(a, b) ==
    \/ a[1] < b[1]
    \/ a[1] = b[1] /\ a[2] < b[2]
    \/ a[1] = b[1] /\ a[2] = b[2] /\ a[3] < b[3]
    \/ a[1] = b[1] /\ a[2] = b[2] /\ a[3] = b[3] /\ a[4] <= b[4]

(***************************************************************************)
(* The votes table.                                                        *)
(***************************************************************************)
\* A row of votes, as add_vote writes it (database.py:509-532).
VoteRow(session_id, prompt_id, system_id_a, system_id_b, vote, is_offensive_a, is_offensive_b) ==
    [ prompt_id |-> prompt_id, system_id_a |-> system_id_a, system_id_b |-> system_id_b,
      session_id |-> session_id, vote |-> vote,
      is_offensive_a |-> is_offensive_a, is_offensive_b |-> is_offensive_b ]

\* The primary key of a row of votes.
VoteKey(r) == <<r.prompt_id, r.system_id_a, r.system_id_b, r.session_id>>

\* An INSERT into a table without the unique key.
StatementInsertVote(table, row) == table \cup {row}

\* An INSERT that overwrites the row of a duplicate key (REPLACE INTO).
StatementReplaceVote(table, row) ==
    { r \in table : VoteKey(r) # VoteKey(row) } \cup {row}

\* STATEMENT_ADD_VOTE (database.py:226-230): INSERT ... ON DUPLICATE KEY
\* UPDATE prompt_id = prompt_id, which changes nothing of an existing row.
StatementAddVote(table, row) ==
    IF \E r \in table : VoteKey(r) = VoteKey(row) THEN table ELSE table \cup {row}

(***************************************************************************)
(* The queries of the battle selector.                                     *)
(***************************************************************************)
\* STATEMENT_TASK_OUTPUTS (database.py:161-165).
StatementTaskOutputs(task) ==
    { o \in OutputIds : outputs[o] # NoOutput /\ prompt_id_to_task(o[1]) = task }

\* STATEMENT_SYSTEM_NON_SKIP_VOTE_COUNTS (database.py:167-176), read into a
\* defaultdict(int) (database.py:363-364): UNION ALL keeps one line per side.
StatementSystemNonSkipVoteCounts(task) ==
    [s \in Systems |->
        Cardinality({ r \in votes : r.vote # "n" /\ prompt_id_to_task(r.prompt_id) = task
                                    /\ r.system_id_a = s })
        + Cardinality({ r \in votes : r.vote # "n" /\ prompt_id_to_task(r.prompt_id) = task
                                      /\ r.system_id_b = s })]

\* A count of the votes per prompt that leaves out the filter vote != 'n'.
StatementPromptVoteCounts(task) ==
    [p \in Prompts |->
        Cardinality({ r \in votes : prompt_id_to_task(r.prompt_id) = task /\ r.prompt_id = p })]

\* STATEMENT_PROMPT_NON_SKIP_VOTE_COUNTS (database.py:178-183), read into a
\* defaultdict(int) (database.py:366-367).
StatementPromptNonSkipVoteCounts(task) ==
    [p \in Prompts |->
        Cardinality({ r \in votes : r.vote # "n" /\ prompt_id_to_task(r.prompt_id) = task
                                    /\ r.prompt_id = p })]

\* A session whose votes are not counted: every output is unseen.
NoSessionOutputVoteCounts(session_id, task) == [o \in OutputIds |-> 0]

\* STATEMENT_SESSION_OUTPUT_VOTE_COUNTS (database.py:185-196), read into a
\* defaultdict(int) (database.py:369-372).  The two SELECTs are joined by UNION,
\* which keeps distinct (prompt_id, system_id) lines only, and the lines are then
\* counted per (prompt_id, system_id).
StatementSessionOutputVoteCounts(session_id, task) ==
    LET mine == { r \in votes : r.session_id = session_id
                                /\ prompt_id_to_task(r.prompt_id) = task }
        t == { <<r.prompt_id, r.system_id_a>> : r \in mine }
             \cup { <<r.prompt_id, r.system_id_b>> : r \in mine }
    IN  [o \in OutputIds |-> Cardinality({ x \in t : x = o })]

\* session_voted_prompts (database.py:374-380): the per-output counts summed per
\* prompt, then halved.
SessionVotedPrompts(session_voted_outputs) ==
    [p \in Prompts |->
        SumOver([s \in Systems |-> session_voted_outputs[<<p, s>>]], Systems) \div 2]

\* The four counter maps after the queries (database.py:363-380), when the
\* four statements read one state of the ledger.
LoadCounters(session_id, task) ==
    LET svo == StatementSessionOutputVoteCounts(session_id, task)
    IN  [ session_voted_outputs |-> svo,
          system_id_to_non_skip_vote_count |-> StatementSystemNonSkipVoteCounts(task),
          session_voted_prompts |-> SessionVotedPrompts(svo),
          prompt_id_to_non_skip_vote_count |-> StatementPromptNonSkipVoteCounts(task) ]

\* One turn of the loop over ignored_output_ids (database.py:384-388).
IgnoreOutput(c, o) ==
    [ session_voted_outputs |->
          [c.session_voted_outputs EXCEPT ![o] = @ + 1],
      system_id_to_non_skip_vote_count |->
          [c.system_id_to_non_skip_vote_count EXCEPT ![o[2]] = @ + 1],
      session_voted_prompts |->
          [c.session_voted_prompts EXCEPT ![o[1]] = @ + 1],
      prompt_id_to_non_skip_vote_count |->
          [c.prompt_id_to_non_skip_vote_count EXCEPT ![o[1]] = @ + 1] ]

\* The loop over ignored_output_ids (database.py:382-388).
RECURSIVE MergeIgnored(_, _)
MergeIgnored(c, ids) ==
    IF ids = <<>> THEN c ELSE MergeIgnored(IgnoreOutput(c, Head(ids)), Tail(ids))

\* A simulated vote that counts the anchor's side only.
SimulateVoteOfAnchor(c, prompt_id, system_id_a, system_id_b) ==
    [ c EXCEPT !.session_voted_outputs[<<prompt_id, system_id_a>>] = @ + 1,
               !.system_id_to_non_skip_vote_count[system_id_a] = @ + 1,
               !.session_voted_prompts[prompt_id] = @ + 1,
               !.prompt_id_to_non_skip_vote_count[prompt_id] = @ + 1 ]

\* The simulated vote after a yielded battle (database.py:428-438).
SimulateVote(c, prompt_id, system_id_a, system_id_b) ==
    [ session_voted_outputs |->
          [c.session_voted_outputs EXCEPT ![<<prompt_id, system_id_a>>] = @ + 1,
                                          ![<<prompt_id, system_id_b>>] = @ + 1],
      system_id_to_non_skip_vote_count |->
          [c.system_id_to_non_skip_vote_count EXCEPT ![system_id_a] = @ + 1,
                                                     ![system_id_b] = @ + 1],
      session_voted_prompts |->
          [c.session_voted_prompts EXCEPT ![prompt_id] = @ + 1],
      prompt_id_to_non_skip_vote_count |->
          [c.prompt_id_to_non_skip_vote_count EXCEPT ![prompt_id] = @ + 1] ]

(***************************************************************************)
(* Battles.                                                                *)
(***************************************************************************)
NoBattle == [prompt_id |-> "none"]

\* _create_battle_with_prompt (database.py:272-281).  `coin` is the outcome of
\* random.random() < 0.5.  The fields anchor and partner are not fields of
\* Battle: they keep which output the selector picked first.
_create_battle_with_prompt(prompt_id, system_id_a, text_a, system_id_b, text_b, coin) ==
    IF coin
    THEN [ prompt_id |-> prompt_id, prompt_id_b |-> prompt_id,
           system_id_a |-> system_id_b, text_a |-> text_b,
           system_id_b |-> system_id_a, text_b |-> text_a,
           anchor |-> system_id_a, partner |-> system_id_b ]
    ELSE [ prompt_id |-> prompt_id, prompt_id_b |-> prompt_id,
           system_id_a |-> system_id_a, text_a |-> text_a,
           system_id_b |-> system_id_b, text_b |-> text_b,
           anchor |-> system_id_a, partner |-> system_id_b ]

(***************************************************************************)
(* Battle tokens (__main__.py:115-142).  A plaintext is the list of the    *)
(* pieces of the f-string; a Fernet token is authentic when the server     *)
(* made it.                                                                *)
(***************************************************************************)
Bar == "|"

\* The pieces of an ID inside the f-string: the ID itself, or, for the system
\* ID that holds a bar, what stands before the bar, the bar, and what follows.
Pieces(id) == IF id = "S|5" THEN <<"S", Bar, "5">> ELSE <<id>>

\* _encrypt_as_battle_token (__main__.py:115-116).
_encrypt_as_battle_token(prompt_id, system_id_a, system_id_b) ==
    [ authentic |-> TRUE,
      plaintext |-> Pieces(prompt_id) \o <<Bar>> \o Pieces(system_id_a) \o <<Bar>> \o Pieces(system_id_b) ]

\* A token the server did not make, the plain text of a battle sent in place of
\* its token, and the empty string.
TamperedToken == [ authentic |-> FALSE, plaintext |-> <<"tampered">> ]
MalformedToken == [ authentic |-> FALSE, plaintext |-> <<"en_1", Bar, "S1", Bar, "S2">> ]
EmptyToken == [ authentic |-> FALSE, plaintext |-> <<>> ]

\* str.split("|") on a list of pieces: the lists of pieces between the bars.
RECURSIVE SplitBar(_)
SplitBar(pieces) ==
    IF pieces = <<>> THEN << <<>> >>
    ELSE LET rest == SplitBar(Tail(pieces))
         IN  IF Head(pieces) = Bar THEN << <<>> >> \o rest
             ELSE << <<Head(pieces)>> \o Head(rest) >> \o Tail(rest)

\* A decryption that does not authenticate the token.
DecryptUnauthenticated(token) ==
    LET parts == SplitBar(token.plaintext)
    IN  IF Len(parts) # 3 \/ \E i \in 1..Len(parts) : Len(parts[i]) # 1 THEN [ ok |-> FALSE ]
        ELSE [ ok |-> TRUE, prompt_id |-> parts[1][1],
               system_id_a |-> parts[2][1], system_id_b |-> parts[3][1] ]

\* _decrypt_battle_token (__main__.py:125-142): ok = FALSE stands for ValueError.
_decrypt_battle_token(token) ==
    IF ~token.authentic THEN [ ok |-> FALSE ]
    ELSE LET parts == SplitBar(token.plaintext)
         IN  IF Len(parts) # 3 THEN [ ok |-> FALSE ]
             ELSE IF \E i \in 1..3 : parts[i] = <<>> \/ parts[i] = <<"">> THEN [ ok |-> FALSE ]
             ELSE IF \E i \in 1..3 : Len(parts[i]) # 1 THEN [ ok |-> FALSE ]
             ELSE [ ok |-> TRUE, prompt_id |-> parts[1][1],
                    system_id_a |-> parts[2][1], system_id_b |-> parts[3][1] ]

\* _simplify_battle_object (__main__.py:239-247): the token names the systems of
\* output_a and output_b as the battle has them after the swap.  The texts of
\* the model hold no space, so _perturb_text returns them as they are.
_simplify_battle_object(battle) ==
    [ token |-> _encrypt_as_battle_token(battle.prompt_id, battle.system_id_a, battle.system_id_b),
      output_a |-> battle.text_a,
      output_b |-> battle.text_b ]

\* The loop over ignored_tokens of battles_route (__main__.py:282-289).
RECURSIVE IgnoredOutputIds(_)
IgnoredOutputIds(ignored_tokens) ==
    IF ignored_tokens = <<>> THEN <<>>
    ELSE LET id == _decrypt_battle_token(Head(ignored_tokens))
         IN  (IF id.ok THEN << <<id.prompt_id, id.system_id_a>>, <<id.prompt_id, id.system_id_b>> >>
              ELSE <<>>)
             \o IgnoredOutputIds(Tail(ignored_tokens))

(***************************************************************************)
(* The selector's loop (database.py:390-442).                              *)
(***************************************************************************)
\* The sort key of a candidate output (database.py:391-396, 410).
SortKey(c, o) ==
    << c.session_voted_outputs[o],
       c.system_id_to_non_skip_vote_count[o[2]],
       c.session_voted_prompts[o[1]],
       c.prompt_id_to_non_skip_vote_count[o[1]] >>

\* The partner list of candidate (prompt_id, system_id_a) (database.py:416-420).
\* The middle condition of the comprehension, `(prompt_id, system_id)`, is a
\* non-empty tuple: it is true of every output.
PartnerOutputs(task, prompt_id, system_id_a) ==
    { system_id \in Systems :
        /\ <<prompt_id, system_id>> \in StatementTaskOutputs(task)
        /\ system_id # system_id_a
        /\ <<prompt_id, system_id>> # <<>>
        /\ outputs[<<prompt_id, system_id>>] # outputs[<<prompt_id, system_id_a>>] }

\* A choice of partner that takes the head of the shuffled list.
PyFirst(c, prompt_id, partners) == partners[1]

\* min(partner_outputs, key=lambda p: p[0]) (database.py:422): the first element
\* of the shuffled list whose session count no element undercuts.
RECURSIVE PyMin(_, _, _)
PyMin(c, prompt_id, partners) ==
    IF Len(partners) = 1 THEN partners[1]
    ELSE LET m == PyMin(c, prompt_id, Tail(partners))
         IN  IF c.session_voted_outputs[<<prompt_id, Head(partners)>>]
                  <= c.session_voted_outputs[<<prompt_id, m>>]
             THEN Head(partners) ELSE m

\* The heads of a queue that is shuffled and not sorted.
UnsortedHeads(c, remaining) == remaining

\* The heads a shuffled and then stably sorted queue can have (database.py:405,
\* 410-411): the candidates whose key no remaining candidate undercuts.
QueueHeads(c, remaining) ==
    { o \in remaining : \A d \in remaining : TupleLeq(SortKey(c, o), SortKey(c, d)) }

\* A scan that tries the head of the queue only.
ScanHeadOnly(c, task, remaining) ==
    { o \in QueueHeads(c, remaining) : PartnerOutputs(task, o[1], o[2]) # {} }

\* The scan of the queue (database.py:413-420): popleft until a candidate has a
\* partner.  The result is the set of candidates the scan can stop at; it is
\* empty when the queue runs out.
RECURSIVE ScanQueue(_, _, _)
ScanQueue(c, task, remaining) ==
    UNION { IF PartnerOutputs(task, o[1], o[2]) # {} THEN {o}
            ELSE ScanQueue(c, task, remaining \ {o})
          : o \in QueueHeads(c, remaining) }

Counters(r) ==
    [ session_voted_outputs |-> r.session_voted_outputs,
      system_id_to_non_skip_vote_count |-> r.system_id_to_non_skip_vote_count,
      session_voted_prompts |-> r.session_voted_prompts,
      prompt_id_to_non_skip_vote_count |-> r.prompt_id_to_non_skip_vote_count ]

ZeroCounters ==
    [ session_voted_outputs |-> [o \in OutputIds |-> 0],
      system_id_to_non_skip_vote_count |-> [s \in Systems |-> 0],
      session_voted_prompts |-> [p \in Prompts |-> 0],
      prompt_id_to_non_skip_vote_count |-> [p \in Prompts |-> 0] ]

\* The request-local state of a battles call.
Call(pc, session_id, task, requested, batch_size, ids, c, last, num_returned, empty_scans, total, random) ==
    [ pc |-> pc, session_id |-> session_id, task |-> task, requested |-> requested,
      batch_size |-> batch_size, ignored_output_ids |-> ids,
      session_voted_outputs |-> c.session_voted_outputs,
      system_id_to_non_skip_vote_count |-> c.system_id_to_non_skip_vote_count,
      session_voted_prompts |-> c.session_voted_prompts,
      prompt_id_to_non_skip_vote_count |-> c.prompt_id_to_non_skip_vote_count,
      last |-> last, num_returned |-> num_returned, empty_scans |-> empty_scans,
      total |-> total, random |-> random ]

IdleCall == Call("idle", "none", "none", 0, 0, <<>>, ZeroCounters, NoBattle, 0, 0, 0, {})

\* The join of outputs with itself on the prompt alone.
RandomBattleRowsAnySystem(task) ==
    { row \in Prompts \X Systems \X Systems :
        /\ <<row[1], row[2]>> \in StatementTaskOutputs(task)
        /\ <<row[1], row[3]>> \in StatementTaskOutputs(task) }

\* STATEMENT_RANDOM_BATTLES (database.py:198-224) without its LIMIT: the lines of
\* the join of outputs with itself.
RandomBattleRows(task) ==
    { row \in Prompts \X Systems \X Systems :
        /\ <<row[1], row[2]>> \in StatementTaskOutputs(task)
        /\ <<row[1], row[3]>> \in StatementTaskOutputs(task)
        /\ row[3] # row[2] }

\* random_battles (database.py:445-455): `limit` lines of the join taken at
\* random (all of them when there are fewer), each made a battle.  The result
\* is the set of the battles yielded and their number; the order of the lines,
\* which is random, is not kept.
random_battles(task, limit) ==
    LET rows == RandomBattleRows(task)
        n == Min(Max(limit, 0), Cardinality(rows))
        Battles(chosen, coins) ==
            { _create_battle_with_prompt(row[1], row[2], outputs[<<row[1], row[2]>>],
                                         row[3], outputs[<<row[1], row[3]>>], coins[row])
              : row \in chosen }
    IN  UNION { { [ battles |-> Battles(chosen, coins), count |-> n ]
                  : coins \in [chosen -> BOOLEAN] }
                : chosen \in { x \in SUBSET rows : Cardinality(x) = n } }

(***************************************************************************)
(* The battles route.                                                      *)
(***************************************************************************)
TaskInputs == {"a-en", "a-es", "a-zh", "a-fr"}
BatchInputs == 0..MaxBatch

\* The battles a served token can name: the selector yields only pairs of
\* outputs of one prompt, from two systems, with two texts.
ServableBattles ==
    { b \in Prompts \X Systems \X Systems :
        /\ outputs[<<b[1], b[2]>>] # NoOutput
        /\ outputs[<<b[1], b[3]>>] # NoOutput
        /\ b[2] # b[3]
        /\ outputs[<<b[1], b[2]>>] # outputs[<<b[1], b[3]>>] }

ServedTokens == { _encrypt_as_battle_token(b[1], b[2], b[3]) : b \in ServableBattles }

\* The ignored_tokens a client sends: nothing, one token it was served, or a
\* token that does not decrypt.
IgnoredTokenInputs ==
    {<<>>} \cup { <<t>> : t \in { _encrypt_as_battle_token(b[1], b[2], b[3]) :
                                    b \in { x \in ServableBattles :
                                              x[1] = "en_1" /\ <<x[2], x[3]>> \in {<<"S1", "S2">>, <<"S1", "S3">>, <<"S2", "S3">>} } }
                              \cup {TamperedToken} }

\* A clamp that forgets the lower end.
ClampBelowMaxOnly(batch_size) == Min(batch_size, REQUEST_BATTLE_BATCH_SIZE)

\* max(min(batch_size, REQUEST_BATTLE_BATCH_SIZE), 1) (__main__.py:280).
ClampBatchSize(batch_size) == Max(Min(batch_size, REQUEST_BATTLE_BATCH_SIZE), 1)

\* The positions of a battles call at which it awaits a statement of the
\* selector (database.py:336-347), named after the statement that runs next.
QueryPcs == {"system_counts", "prompt_counts", "session_counts"}

\* The call has left the block of the four statements and has not started the
\* first turn of its loop: the exit of `async with engine.connect()`
\* (database.py:336-347) awaits the close of the connection.
BeforeLoop ==
    req.pc = "loop" /\ req.num_returned = 0 /\ req.empty_scans = 0 /\ req.batch_size = req.requested

\* The positions at which the process runs other coroutines: no battles call,
\* a battles call that awaits a statement or the close of its connection, and
\* a call whose response is being sent.  Between two turns of the loop the
\* call does not return to the event loop.
AtAwait == req.pc \in {"idle", "done", "random"} \cup QueryPcs \/ BeforeLoop

\* battles_route up to the first statement of the selector (__main__.py:271-296,
\* database.py:334-343).  The four statements are executed on one connection
\* in the order asyncio.gather is given them, and the call returns to the event
\* loop at each of them: another request's add_vote can commit in between.
\* The lines of STATEMENT_TASK_OUTPUTS are read from `outputs`, which no step of
\* the web application writes.
battles_route(session_id, task_in, batch_in, ignored_tokens) ==
    /\ req.pc = "idle"
    /\ LET task == IF task_in \in TASK_CHOICES THEN task_in ELSE "a-en"
           batch_size == ClampBatchSize(batch_in)
           ids == IgnoredOutputIds(ignored_tokens)
       IN  req' = Call("system_counts", session_id, task, batch_size, batch_size, ids,
                       ZeroCounters, NoBattle, 0, 0, 0, {})
    /\ UNCHANGED <<outputs, votes, pending, http, ingest, systems, scoring, script>>

\* STATEMENT_SYSTEM_NON_SKIP_VOTE_COUNTS is executed (database.py:344, 363-364).
ExecuteSystemNonSkipVoteCounts ==
    /\ req.pc = "system_counts"
    /\ req' = [req EXCEPT !.pc = "prompt_counts",
                          !.system_id_to_non_skip_vote_count =
                              StatementSystemNonSkipVoteCounts(req.task)]
    /\ UNCHANGED <<outputs, votes, pending, http, ingest, systems, scoring, script, conn>>

\* STATEMENT_PROMPT_NON_SKIP_VOTE_COUNTS is executed (database.py:345, 366-367).
ExecutePromptNonSkipVoteCounts ==
    /\ req.pc = "prompt_counts"
    /\ req' = [req EXCEPT !.pc = "session_counts",
                          !.prompt_id_to_non_skip_vote_count =
                              StatementPromptNonSkipVoteCounts(req.task)]
    /\ UNCHANGED <<outputs, votes, pending, http, ingest, systems, scoring, script, conn>>

\* STATEMENT_SESSION_OUTPUT_VOTE_COUNTS is executed, the last of the four; the
\* counter maps are completed and the ignored outputs are merged
\* (database.py:346, 369-388).  These lines follow the close of the connection
\* and read the cursors only: they are taken with the statement.
ExecuteSessionOutputVoteCounts ==
    /\ req.pc = "session_counts"
    /\ LET svo == StatementSessionOutputVoteCounts(req.session_id, req.task)
           c == [ session_voted_outputs |-> svo,
                  system_id_to_non_skip_vote_count |-> req.system_id_to_non_skip_vote_count,
                  session_voted_prompts |-> SessionVotedPrompts(svo),
                  prompt_id_to_non_skip_vote_count |-> req.prompt_id_to_non_skip_vote_count ]
       IN  req' = Call("loop", req.session_id, req.task, req.requested, req.batch_size,
                       req.ignored_output_ids, MergeIgnored(c, req.ignored_output_ids),
                       NoBattle, 0, 0, 0, {})
    /\ UNCHANGED <<outputs, votes, pending, http, ingest, systems, scoring, script, conn>>

\* battles_route of a request of session session_id.
BattlesRoute(session_id, task_in, batch_in, ignored_tokens) ==
    /\ battles_route(session_id, task_in, batch_in, ignored_tokens)
    /\ UNCHANGED conn

\* A turn of the loop that writes its simulated vote to the ledger.
YieldBattleRecorded ==
    /\ req.pc = "loop"
    /\ req.batch_size > 0
    /\ \E o \in ScanQueue(Counters(req), req.task, StatementTaskOutputs(req.task)) :
       \E partner_outputs \in Shuffles(PartnerOutputs(req.task, o[1], o[2])) :
       \E coin \in BOOLEAN :
          LET prompt_id == o[1]
              system_id_a == o[2]
              system_id_b == PyMin(Counters(req), prompt_id, partner_outputs)
          IN  /\ req' = Call("loop", req.session_id, req.task, req.requested,
                          req.batch_size - 1, req.ignored_output_ids,
                          SimulateVote(Counters(req), prompt_id, system_id_a, system_id_b),
                          _create_battle_with_prompt(prompt_id, system_id_a,
                                                     outputs[<<prompt_id, system_id_a>>],
                                                     system_id_b,
                                                     outputs[<<prompt_id, system_id_b>>], coin),
                          req.num_returned + 1, req.empty_scans, 0, {})
              /\ votes' = StatementAddVote(votes, VoteRow(req.session_id, prompt_id, system_id_a,
                                                          system_id_b, "a", FALSE, FALSE))
    /\ UNCHANGED <<outputs, pending, http, ingest, systems, scoring, script, conn>>

\* One turn of `while batch_size > 0` that yields a battle (database.py:390-442).
YieldBattle ==
    /\ req.pc = "loop"
    /\ req.batch_size > 0
    /\ \E o \in ScanQueue(Counters(req), req.task, StatementTaskOutputs(req.task)) :
       \E partner_outputs \in Shuffles(PartnerOutputs(req.task, o[1], o[2])) :
       \E coin \in BOOLEAN :
          LET prompt_id == o[1]
              system_id_a == o[2]
              system_id_b == PyMin(Counters(req), prompt_id, partner_outputs)
          IN  req' = Call("loop", req.session_id, req.task, req.requested,
                          req.batch_size - 1, req.ignored_output_ids,
                          SimulateVote(Counters(req), prompt_id, system_id_a, system_id_b),
                          _create_battle_with_prompt(prompt_id, system_id_a,
                                                     outputs[<<prompt_id, system_id_a>>],
                                                     system_id_b,
                                                     outputs[<<prompt_id, system_id_b>>], coin),
                          req.num_returned + 1, req.empty_scans, 0, {})
    /\ UNCHANGED <<outputs, votes, pending, http, ingest, systems, scoring, script, conn>>

\* One turn of `while batch_size > 0` whose scan runs out of candidates: no
\* break is reached, batch_size keeps its value and the loop turns again.
\* empty_scans numbers these turns, in 1..MaxSpin and then from 1 again.
EmptyScan ==
    /\ req.pc = "loop"
    /\ req.batch_size > 0
    /\ ScanQueue(Counters(req), req.task, StatementTaskOutputs(req.task)) = {}
    /\ req' = [req EXCEPT !.empty_scans = (@ % MaxSpin) + 1]
    /\ UNCHANGED <<outputs, votes, pending, http, ingest, systems, scoring, script, conn>>

\* The end of _get_battle_objects (__main__.py:266-268) once the selector is
\* exhausted: the shortfall is asked of random_battles.
FinishBattles ==
    /\ req.pc = "loop"
    /\ req.batch_size <= 0
    /\ LET num_missing == req.requested - req.num_returned
       IN  \E padding \in (IF num_missing > 0 THEN random_battles(req.task, num_missing)
                           ELSE {[battles |-> {}, count |-> 0]}) :
              req' = [req EXCEPT !.pc = "done", !.random = padding.battles,
                                 !.total = req.num_returned + padding.count]
    /\ UNCHANGED <<outputs, votes, pending, http, ingest, systems, scoring, script, conn>>

\* A call of random_battles by itself (database.py:445-455).
RandomBattles(task, batch_size) ==
    /\ req.pc = "idle"
    /\ \E result \in random_battles(task, batch_size) :
          req' = [IdleCall EXCEPT !.pc = "random", !.task = task, !.requested = batch_size,
                                  !.random = result.battles, !.total = result.count]
    /\ UNCHANGED <<outputs, votes, pending, http, ingest, systems, scoring, script, conn>>

\* battles_route returns its list (__main__.py:291-296): the response is sent
\* and the request-local state of the call is dropped.
end_call ==
    /\ req.pc \in {"done", "random"}
    /\ req' = IdleCall
    /\ UNCHANGED <<outputs, votes, pending, http, ingest, systems, scoring, script>>

\* The response of a battles call of a request of a given session.
EndCall ==
    /\ end_call
    /\ UNCHANGED conn

(***************************************************************************)
(* The vote recorder.                                                      *)
(***************************************************************************)
\* The value of a key that is not in the form.
NoField == "<absent>"

\* The forms a client posts to /vote; `token` is EmptyToken when the form has
\* none.
VoteForms ==
    { [vote |-> "a", is_offensive_a |-> "true", is_offensive_b |-> "false"],
      [vote |-> "n", is_offensive_a |-> "False", is_offensive_b |-> "tRue"],
      [vote |-> "x", is_offensive_a |-> "false", is_offensive_b |-> "false"],
      [vote |-> "x", is_offensive_a |-> NoField, is_offensive_b |-> "false"],
      [vote |-> "a", is_offensive_a |-> "false", is_offensive_b |-> NoField],
      [vote |-> NoField, is_offensive_a |-> "false", is_offensive_b |-> "false"] }

\* A check of the form that looks for the vote only.
HasVoteOnly(form) == form.vote # NoField

\* all(key in form_data for key in ("vote", "is_offensive_a", "is_offensive_b"))
\* (__main__.py:306).
HasVoteFields(form) ==
    form.vote # NoField /\ form.is_offensive_a # NoField /\ form.is_offensive_b # NoField

\* The tokens of the vote forms: battles of en_1, in both orders of the two
\* systems, and the battle of es_1.
VoteTokens ==
    { _encrypt_as_battle_token(b[1], b[2], b[3]) :
        b \in { x \in ServableBattles :
                  x[1] = "en_1" /\ {x[2], x[3]} = {"S1", "S2"} } }
    \cup {TamperedToken, MalformedToken, EmptyToken}

\* str(form_data[...]).lower() == "true" (__main__.py:328-329).
LowerIsTrue(text) ==
    text \in { "true", "truE", "trUe", "trUE", "tRue", "tRuE", "tRUe", "tRUE",
               "True", "TruE", "TrUe", "TrUE", "TRue", "TRuE", "TRUe", "TRUE" }

\* An add_vote that keeps one vote of a session per prompt: the new row takes
\* the place of the session's rows on the prompt.
add_vote_per_prompt(table, session_id, prompt_id, system_id_a, system_id_b, vote, is_offensive_a, is_offensive_b) ==
    { r \in table : ~(r.session_id = session_id /\ r.prompt_id = prompt_id) }
    \cup { VoteRow(session_id, prompt_id, system_id_a, system_id_b, vote,
                   is_offensive_a, is_offensive_b) }

\* add_vote (database.py:509-532): one INSERT in a transaction of its own.
add_vote(table, session_id, prompt_id, system_id_a, system_id_b, vote, is_offensive_a, is_offensive_b) ==
    StatementAddVote(table, VoteRow(session_id, prompt_id, system_id_a, system_id_b, vote,
                                    is_offensive_a, is_offensive_b))

\* vote_route (__main__.py:299-332).  `turnstile` is what _passes_turnstile
\* answers.  The add_vote call is a background task: it runs after the response
\* has been sent.
vote_route(session_id, turnstile, form, token) ==
    /\ AtAwait
    /\ IF ~turnstile
       THEN /\ http' = [status |-> 403]
            /\ UNCHANGED pending
       ELSE IF ~HasVoteFields(form)
       THEN /\ http' = [status |-> 204]
            /\ UNCHANGED pending
       ELSE IF form.vote \notin VOTE_CHOICES
       THEN /\ http' = [status |-> 400]
            /\ UNCHANGED pending
       ELSE IF token = EmptyToken
       THEN /\ http' = [status |-> 400]
            /\ UNCHANGED pending
       ELSE LET id == _decrypt_battle_token(token)
            IN  IF ~id.ok
                THEN /\ http' = [status |-> 400]
                     /\ UNCHANGED pending
                ELSE LET task == [ session_id |-> session_id, prompt_id |-> id.prompt_id,
                                   system_id_a |-> id.system_id_a,
                                   system_id_b |-> id.system_id_b, vote |-> form.vote,
                                   is_offensive_a |-> LowerIsTrue(form.is_offensive_a),
                                   is_offensive_b |-> LowerIsTrue(form.is_offensive_b) ]
                     IN  /\ Cardinality(pending \cup {task}) <= MaxPending
                         /\ pending' = pending \cup {task}
                         /\ http' = [status |-> 204]
    /\ UNCHANGED <<outputs, votes, req, ingest, systems, scoring, script>>

\* vote_route of a request of session session_id.
VoteRoute(session_id, turnstile, form, token) ==
    /\ vote_route(session_id, turnstile, form, token)
    /\ UNCHANGED conn

\* A background task of vote_route runs add_vote.
AddVote ==
    /\ AtAwait
    /\ \E task \in pending :
          LET table == add_vote(votes, task.session_id, task.prompt_id, task.system_id_a,
                                task.system_id_b, task.vote, task.is_offensive_a,
                                task.is_offensive_b)
          IN  /\ Cardinality(table) <= MaxVotes
              /\ votes' = table
              /\ pending' = pending \ {task}
    /\ UNCHANGED <<outputs, req, http, ingest, systems, scoring, script, conn>>

\* STATEMENT_SESSION_VOTE_COUNT with without_skips (database.py:231-233, 710-715).
session_vote_count_without_skips(session_id) ==
    Cardinality({ r \in votes : r.session_id = session_id /\ r.vote # "n" })

\* STATEMENT_VOTE_COUNT with without_skips (database.py:234, 718-721).
vote_count_without_skips == Cardinality({ r \in votes : r.vote # "n" })

\* session_vote_count_route and vote_count_route (__main__.py:340-347): each
\* answers with a count read from votes.
VoteCountRoutes(session_id) ==
    /\ req.pc = "idle"
    /\ session_vote_count_without_skips(session_id) \in 0..vote_count_without_skips
    /\ UNCHANGED vars

(***************************************************************************)
(* Ingestion of submissions.  The repository holds two functions           *)
(* ingest_submission: that of src/ingestion/submission.py, which reads the *)
(* zip it is given, and that of src/web/src/ingestion/submission.py, which *)
(* asks the submission for the place of its zip; and the script            *)
(* src/extraction/ingest_submission.py, whose main ingests the zip named   *)
(* on its command line.  A task file is the set of the prompt IDs of its   *)
(* lines; the text of a line is the text of the system.                    *)
(***************************************************************************)
\* No response has been sent yet.
NoResponse == [status |-> 0]

\* An exception of ingest_submission: its type, the line that raises it, and,
\* for the errors of the loop over the tasks, the task and what the message
\* reports.
IngestError(type, line, message, task, missing, extra) ==
    [ type |-> type, line |-> line, message |-> message, task |-> task,
      missing |-> missing, extra |-> extra ]

NoError == IngestError("none", 0, "", "none", {}, {})

\* The systems of a table of outputs.
SystemsWithOutputs(table) == { o[2] : o \in { x \in OutputIds : table[x] # NoOutput } }

\* SELECT prompt_id FROM prompts WHERE prompt_id LIKE :prompt_id_like
\* (src/ingestion/submission.py:63-67): the prompts of the task.
ReferencePromptIds(task) == { p \in Prompts : prompt_id_to_task(p) = task }

\* What the zip holds at task-<task>.tsv: nothing, a directory, or a file of
\* lines; `stored` says whether the INSERT of the lines of a file goes through.
NoFile == [kind |-> "absent", prompt_ids |-> {}, stored |-> TRUE]

Directory == [kind |-> "dir", prompt_ids |-> {}, stored |-> TRUE]

TaskFile(prompt_ids, stored) == [kind |-> "file", prompt_ids |-> prompt_ids, stored |-> stored]

\* The prompt IDs the file of a task can hold: for a-en its own prompts and one
\* that is not in the prompts table, for a-es its own prompt and one of a-en.
FilePromptIds(task) == IF task = "a-en" THEN {"en_1", "en_2", "en_9"} ELSE {"es_1", "en_1"}

SubmittedFiles(task) ==
    { TaskFile(ids, TRUE) : ids \in SUBSET FilePromptIds(task) } \cup {NoFile, Directory}

\* A file with the reference prompt IDs whose to_sql raises.
UnstoredFile(task) == TaskFile(ReferencePromptIds(task), FALSE)

\* The file a submission comes in: a zip with what it holds for each task, or a
\* file that is no zip.
Zip(files) == [is_zip |-> TRUE, files |-> files]

NotAZip == [is_zip |-> FALSE, files |-> [task \in {"a-en", "a-es"} |-> NoFile]]

\* The tasks of a list of tasks.
TaskSet(tasks) == { tasks[i] : i \in DOMAIN tasks }

\* The zips of the submissions of the model, for a submission of the given
\* tasks: a zip holds nothing at the path of a task that is not in the list.
SubmittedZips(tasks) ==
    { Zip(files) :
        files \in { f \in [{"a-en", "a-es"} -> SubmittedFiles("a-en") \cup SubmittedFiles("a-es")] :
                      \A task \in {"a-en", "a-es"} :
                         f[task] \in (IF task \in TaskSet(tasks) THEN SubmittedFiles(task)
                                                                ELSE {NoFile}) } }
    \cup {NotAZip}

\* The zips of the submissions handed to the ingest_submission of
\* src/web/src/ingestion: per task of the list the file with the reference
\* prompt IDs or a file with the one prompt ID en_1.
UploadedZips(tasks) ==
    { Zip(files) :
        files \in { f \in [{"a-en", "a-es"} -> SubmittedFiles("a-en") \cup SubmittedFiles("a-es")] :
                      \A task \in {"a-en", "a-es"} :
                         f[task] \in (IF task \in TaskSet(tasks)
                                      THEN { TaskFile(ReferencePromptIds(task), TRUE),
                                             TaskFile({"en_1"}, TRUE) }
                                      ELSE {NoFile}) } }
    \cup {NotAZip}

\* No ingest_submission call has been made.
NoIngest ==
    [ source |-> "none", system_id |-> "none", tasks |-> <<>>, file |-> NotAZip,
      raised |-> NoError ]

\* The paths of the requests of the model.
Paths == {"/battles", "/vote"}

\* No request has come in on a path yet.
NoScope ==
    [ stage |-> "none", PROLIFIC_PID |-> NoField, SESSION_ID |-> NoField, id |-> NoField,
      session_id |-> "none", state |-> [session_id |-> "none"],
      set_cookie |-> [id |-> NoField] ]

NoRequest == [path \in Paths |-> NoScope]

\* No read of the scoring scripts has been made.
NoScoring ==
    [ pc |-> "idle", task |-> "none", excluded_session_ids |-> {},
      system_id_to_vote_count |-> [x \in {} |-> 0], votes |-> {} ]

\* The ingest_submissions script has not been started.
NoRun ==
    [ pc |-> "idle", raised |-> [type |-> "none", line |-> 0], all_submissions |-> <<>>,
      listdir |-> [exists |-> TRUE, entries |-> <<>>], valid_submissions |-> <<>>,
      submissions_to_ingest |-> <<>> ]

\* submitted_prompt_ids != reference_prompt_ids
\* (src/ingestion/submission.py:70).
PromptIdsDiffer(submitted_prompt_ids, reference_prompt_ids) ==
    submitted_prompt_ids # reference_prompt_ids

\* submission_df.to_sql("outputs", connection, if_exists="append")
\* (src/ingestion/submission.py:78-79).
AppendOutputs(table, system_id, prompt_ids) ==
    [o \in OutputIds |->
        IF o[2] = system_id /\ o[1] \in prompt_ids THEN ProfileText("own", o[1], system_id)
        ELSE table[o]]

\* The loop over submission.tasks (src/ingestion/submission.py:52-79): the
\* first exception ends it.
RECURSIVE IngestTasks(_, _, _, _)
IngestTasks(table, system_id, tasks, files) ==
    IF tasks = <<>> THEN [raised |-> NoError, table |-> table]
    ELSE LET task == Head(tasks)
             reference_prompt_ids == ReferencePromptIds(task)
             submitted_prompt_ids == files[task].prompt_ids
         IN  IF files[task].kind = "absent"
             THEN [ raised |-> IngestError("ValueError", 56, "doesn't exist", task, {}, {}),
                    table |-> table ]
             ELSE IF files[task].kind # "file"
             THEN [ raised |-> IngestError("ValueError", 59, "isn't a file", task, {}, {}),
                    table |-> table ]
             ELSE IF PromptIdsDiffer(submitted_prompt_ids, reference_prompt_ids)
             THEN [ raised |-> IngestError("ValueError", 71, "do not match", task,
                                           reference_prompt_ids \ submitted_prompt_ids,
                                           submitted_prompt_ids \ reference_prompt_ids),
                    table |-> table ]
             ELSE IF ~files[task].stored
             THEN [ raised |-> IngestError("DBAPIError", 79, "to_sql", task, {}, {}),
                    table |-> table ]
             ELSE IngestTasks(AppendOutputs(table, system_id, submitted_prompt_ids),
                              system_id, Tail(tasks), files)

\* A connection in autocommit: what the statements wrote stays.
Autocommit(begun, done) == done.tables

\* engine.begin() (src/ingestion/submission.py:41,
\* src/web/src/ingestion/submission.py:105): the transaction is committed when
\* the block ends and rolled back when it raises.
EngineBegin(begun, done) == IF done.raised = NoError THEN done.tables ELSE begun

\* ingest_submission(submission, file) of src/ingestion/submission.py:39-81;
\* system_id is submission.system_id and tasks is submission.tasks in the order
\* the loop reads it.  The INSERT into systems raises IntegrityError when the
\* table has the system (the case src/web/src/ingestion/submission.py:112-114
\* names), ZipFile raises BadZipFile for a file that is no zip, and the
\* statements run in the transaction of engine.begin().
IngestSubmissionFromFile(system_id, tasks, file) ==
    /\ LET begun == [systems |-> systems, outputs |-> outputs]
           inserted == [begun EXCEPT !.systems = @ \cup {system_id}]
           loop == IngestTasks(outputs, system_id, tasks, file.files)
           done == IF system_id \in systems
                   THEN [ raised |-> IngestError("IntegrityError", 42, "systems", "none", {}, {}),
                          tables |-> begun ]
                   ELSE IF ~file.is_zip
                   THEN [ raised |-> IngestError("BadZipFile", 47, "not a zip", "none", {}, {}),
                          tables |-> inserted ]
                   ELSE [ raised |-> loop.raised,
                          tables |-> [inserted EXCEPT !.outputs = loop.table] ]
           ended == EngineBegin(begun, done)
       IN  /\ ingest' = [ source |-> "src/ingestion", system_id |-> system_id, tasks |-> tasks,
                          file |-> file, raised |-> done.raised ]
           /\ systems' = ended.systems
           /\ outputs' = ended.outputs
    /\ UNCHANGED <<votes, pending, req, http, scoring, script, conn>>

\* ingest_submission(engine, phase_id, submission) of
\* src/web/src/ingestion/submission.py:97-172, for a Submission of
\* src/web/src/ingestion/codabench.py:57-80; `file` is the zip of the
\* submission.  The call connection.execute of line 108 makes a coroutine that
\* is not awaited, so no INSERT into systems is sent; line 118 then calls
\* submission.compute_path_or_url(), which Submission does not have, and
\* raises AttributeError before the zip is opened.  The lines 119-172 are not
\* reached and the transaction of engine.begin() is rolled back.
IngestSubmission(system_id, tasks, file) ==
    /\ LET begun == [systems |-> systems, outputs |-> outputs]
           done == [ raised |-> IngestError("AttributeError", 118, "compute_path_or_url",
                                            "none", {}, {}),
                     tables |-> begun ]
           ended == EngineBegin(begun, done)
       IN  /\ ingest' = [ source |-> "src/web/src/ingestion", system_id |-> system_id,
                          tasks |-> tasks, file |-> file, raised |-> done.raised ]
           /\ systems' = ended.systems
           /\ outputs' = ended.outputs
    /\ UNCHANGED <<votes, pending, req, http, scoring, script, conn>>

\* sorted(zip_file.namelist()) (src/extraction/ingest_submission.py:54) over
\* the names a zip of the model can list: notes.tsv, task-a-en.tsv and
\* task-a-es.tsv, each named here without `task-` and `.tsv`.
SortedNamelist == <<"notes", "a-en", "a-es">>

\* The names the loop of main takes: a name that ends in .tsv and is a file
\* in the extracted directory (src/extraction/ingest_submission.py:58); a
\* name the zip does not list, or that is a directory, is passed over.
TakenNames(files) ==
    SelectSeq(SortedNamelist, LAMBDA name : name \in DOMAIN files /\ files[name].kind = "file")

\* The loop over the names of the zip
\* (src/extraction/ingest_submission.py:54-81): the first exception ends it.
\* get_args(Task) are the tasks of TASK_CHOICES, each with `task-` before it.
RECURSIVE IngestNames(_, _, _, _)
IngestNames(table, user, names, files) ==
    IF names = <<>> THEN [raised |-> NoError, table |-> table]
    ELSE LET task == Head(names)
             reference_prompt_ids == ReferencePromptIds(task)
             submitted_prompt_ids == files[task].prompt_ids
         IN  IF task \notin TASK_CHOICES
             THEN [ raised |-> IngestError("ValueError", 60, "Unknown task", task, {}, {}),
                    table |-> table ]
             ELSE IF PromptIdsDiffer(submitted_prompt_ids, reference_prompt_ids)
             THEN [ raised |-> IngestError("ValueError", 74, "do not match", task,
                                           reference_prompt_ids \ submitted_prompt_ids,
                                           submitted_prompt_ids \ reference_prompt_ids),
                    table |-> table ]
             ELSE IF ~files[task].stored
             THEN [ raised |-> IngestError("DBAPIError", 81, "to_sql", task, {}, {}),
                    table |-> table ]
             ELSE IngestNames(AppendOutputs(table, user, submitted_prompt_ids),
                              user, Tail(names), files)

\* main of src/extraction/ingest_submission.py:39-81, run on the zip
\* <user>.zip: the system is the name of the file without its extension.
\* With the transaction of engine.begin() open, ZipFile raises BadZipFile for
\* a file that is no zip (line 44); the INSERT into systems raises
\* IntegrityError when the table has the system (line 45); then every .tsv
\* file the zip lists is ingested, in the order of the sorted names, whatever
\* its task.  An exception rolls the transaction back.
ExtractionMain(user, file) ==
    /\ LET begun == [systems |-> systems, outputs |-> outputs]
           inserted == [begun EXCEPT !.systems = @ \cup {user}]
           loop == IngestNames(outputs, user, TakenNames(file.files), file.files)
           done == IF ~file.is_zip
                   THEN [ raised |-> IngestError("BadZipFile", 44, "not a zip", "none", {}, {}),
                          tables |-> begun ]
                   ELSE IF user \in systems
                   THEN [ raised |-> IngestError("IntegrityError", 45, "systems", "none", {}, {}),
                          tables |-> begun ]
                   ELSE [ raised |-> loop.raised,
                          tables |-> [inserted EXCEPT !.outputs = loop.table] ]
           ended == EngineBegin(begun, done)
       IN  /\ ingest' = [ source |-> "src/extraction", system_id |-> user,
                          tasks |-> IF file.is_zip THEN TakenNames(file.files) ELSE <<>>,
                          file |-> file, raised |-> done.raised ]
           /\ systems' = ended.systems
           /\ outputs' = ended.outputs
    /\ UNCHANGED <<votes, pending, req, http, scoring, script, conn>>

\* The zips main is run on: at notes.tsv nothing or a file; at the path of
\* each task nothing, a directory, the file with the reference prompt IDs, the
\* same file with a to_sql that raises, or a file with the one prompt ID en_1;
\* and a file that is no zip.
ListedZips ==
    { Zip(files) :
        files \in { f \in [ {"notes", "a-en", "a-es"} ->
                               { NoFile, Directory, TaskFile({}, TRUE), TaskFile({"en_1"}, TRUE) }
                               \cup { UnstoredFile(task) : task \in {"a-en", "a-es"} }
                               \cup { TaskFile(ReferencePromptIds(task), TRUE) :
                                        task \in {"a-en", "a-es"} } ] :
                      /\ f["notes"] \in { NoFile, TaskFile({}, TRUE) }
                      /\ \A task \in {"a-en", "a-es"} :
                            f[task] \in { NoFile, Directory, TaskFile({"en_1"}, TRUE),
                                          UnstoredFile(task),
                                          TaskFile(ReferencePromptIds(task), TRUE) } } }
    \cup {NotAZip}

\* submission.tasks of the submissions of the model, in the orders the loop
\* can read them.
IngestTaskLists == { <<>>, <<"a-en">>, <<"a-es">>, <<"a-en", "a-es">>, <<"a-es", "a-en">> }

InitIngest ==
    /\ outputs = TableOf({}, "own")
    /\ votes = {}
    /\ pending = {}
    /\ req = IdleCall
    /\ http = NoResponse
    /\ ingest = NoIngest
    /\ systems = SystemsWithOutputs(outputs)
    /\ scoring = NoScoring
    /\ script = NoRun
    /\ conn = NoRequest

NextIngest ==
    \/ \E system_id \in {"S1", "S2"}, tasks \in IngestTaskLists :
          \E file \in SubmittedZips(tasks) : IngestSubmissionFromFile(system_id, tasks, file)
    \/ \E system_id \in {"S1", "S2"}, tasks \in IngestTaskLists :
          \E file \in UploadedZips(tasks) : IngestSubmission(system_id, tasks, file)
    \/ \E user \in {"S1", "S2"}, file \in ListedZips : ExtractionMain(user, file)

SpecIngest == InitIngest /\ [][NextIngest]_vars

\* What a zip that fails in each way holds for a task: the file with the
\* reference prompt IDs, the same file with a to_sql that raises, a file with
\* the one prompt ID en_1, a directory, or no file.
FailingFiles(task) ==
    { NoFile, Directory, TaskFile({"en_1"}, TRUE), UnstoredFile(task),
      TaskFile(ReferencePromptIds(task), TRUE) }

\* Those zips for a submission of the given tasks, and a file that is no zip.
FailingZips(tasks) ==
    { Zip(files) :
        files \in { f \in [{"a-en", "a-es"} -> FailingFiles("a-en") \cup FailingFiles("a-es")] :
                      \A task \in {"a-en", "a-es"} :
                         f[task] \in (IF task \in TaskSet(tasks) THEN FailingFiles(task)
                                                                ELSE {NoFile}) } }
    \cup {NotAZip}

NextFailing ==
    \/ \E system_id \in {"S1", "S2"}, tasks \in IngestTaskLists :
          \E file \in FailingZips(tasks) : IngestSubmissionFromFile(system_id, tasks, file)
    \/ \E system_id \in {"S1", "S2"}, tasks \in IngestTaskLists :
          \E file \in UploadedZips(tasks) : IngestSubmission(system_id, tasks, file)
    \/ \E user \in {"S1", "S2"}, file \in ListedZips : ExtractionMain(user, file)

SpecFailing == InitIngest /\ [][NextFailing]_vars

(***************************************************************************)
(* The ingest_submissions script (scripts/ingest_submissions.py): the      *)
(* CodaBench submissions are reduced to one submission per user.  The      *)
(* script calls src/web/src/ingestion/submission.py and codabench.py as    *)
(* they are: Submission takes no path_or_url, and list_ingested_system_ids *)
(* requires an engine, so main ends by an exception before its loop over   *)
(* submissions_to_ingest.                                                  *)
(***************************************************************************)
MaxSubmissions == 3   \* CodaBench submission IDs are 1..MaxSubmissions

\* A Submission (codabench.py:57-71): its system_id is its user.
Submission(id, user, tasks, tests_passed, is_deleted) ==
    [ id |-> id, user |-> user, tasks |-> tasks, tests_passed |-> tests_passed,
      is_deleted |-> is_deleted ]

\* What list_submissions() can return: per ID no submission, or one of a user
\* that passed its test, failed it, or passed it and was deleted.
ListSubmissions ==
    LET variants == { Submission(0, user, <<"a-en">>, <<k[1]>>, k[2]) :
                        user \in {"S1", "S2"},
                        k \in {<<TRUE, FALSE>>, <<FALSE, FALSE>>, <<TRUE, TRUE>>} }
        absent == Submission(0, "none", <<>>, <<>>, TRUE)
    IN  { { [f[i] EXCEPT !.id = i] : i \in { j \in 1..MaxSubmissions : f[j] # absent } } :
            f \in [1..MaxSubmissions -> variants \cup {absent}] }

\* sorted(list_submissions()) (ingest_submissions.py:38): by ID, the order of
\* Submission.__lt__ (codabench.py:79-80).
RECURSIVE SortedById(_)
SortedById(submissions) ==
    IF submissions = {} THEN <<>>
    ELSE LET first == CHOOSE x \in submissions : \A y \in submissions : x.id <= y.id
         IN  <<first>> \o SortedById(submissions \ {first})

\* The tasks of a submission whose test passed (ingest_submissions.py:47-49).
RECURSIVE PassedTasks(_, _)
PassedTasks(tasks, tests_passed) ==
    IF tasks = <<>> THEN <<>>
    ELSE (IF Head(tests_passed) THEN <<Head(tasks)>> ELSE <<>>)
         \o PassedTasks(Tail(tasks), Tail(tests_passed))

\* valid_submissions before the manual ones are added (ingest_submissions.py:44-54).
RECURSIVE ValidSubmissions(_)
ValidSubmissions(all_submissions) ==
    IF all_submissions = <<>> THEN <<>>
    ELSE LET submission == Head(all_submissions)
             passed == PassedTasks(submission.tasks, submission.tests_passed)
         IN  (IF ~submission.is_deleted /\ passed # <<>>
              THEN << [submission EXCEPT !.tasks = passed,
                                         !.tests_passed = [i \in 1..Len(passed) |-> TRUE]] >>
              ELSE <<>>)
             \o ValidSubmissions(Tail(all_submissions))

\* No exception.
NoException == [type |-> "none", line |-> 0]

\* An entry of submissions/ as os.listdir lists it: its name without its
\* extension, its extension, whether it is a file, and whether its content is
\* a zip archive.
DirEntry(name, ext, isfile, is_zip) ==
    [name |-> name, ext |-> ext, isfile |-> isfile, is_zip |-> is_zip]

\* os.listdir("submissions") (ingest_submissions.py:69): the entries of the
\* directory in the order they are listed, or no directory.
ListDir(entries) == [exists |-> TRUE, entries |-> entries]

NoDirectory == [exists |-> FALSE, entries |-> <<>>]

ListDirs ==
    { NoDirectory, ListDir(<<>>), ListDir(<< DirEntry("notes", ".txt", TRUE, FALSE) >>),
      ListDir(<< DirEntry("S1", ".zip", TRUE, TRUE) >>),
      ListDir(<< DirEntry("S3", ".zip", TRUE, TRUE), DirEntry("S1", ".zip", TRUE, TRUE) >>),
      ListDir(<< DirEntry("S1", ".zip", TRUE, FALSE) >>),
      ListDir(<< DirEntry("S3", ".zip", TRUE, TRUE), DirEntry("S1", ".zip", TRUE, FALSE) >>),
      ListDir(<< DirEntry("old", ".zip", FALSE, FALSE) >>) }

\* The entries of submissions/ the comprehension keeps
\* (ingest_submissions.py:69-70).
IsManualZip(entry) == entry.ext = ".zip" /\ entry.isfile

\* manual_submissions (ingest_submissions.py:59-71).  os.listdir raises
\* FileNotFoundError when there is no directory submissions/.  The list is
\* empty when the directory holds no file named *.zip.  For the first such
\* file, available_tasks_in_file (ingest_submissions.py:23-30) opens it and
\* raises BadZipFile when it is no zip archive; when it is one, the call
\* Submission(..., path_or_url=path) raises TypeError, as the dataclass of
\* codabench.py:57-67 has no such field.  `line` is the line of main's
\* statement the exception comes from.
ManualSubmissions(listdir) ==
    IF ~listdir.exists
    THEN [ raised |-> [type |-> "FileNotFoundError", line |-> 69], value |-> <<>> ]
    ELSE IF \E i \in 1..Len(listdir.entries) : IsManualZip(listdir.entries[i])
    THEN LET first == CHOOSE i \in 1..Len(listdir.entries) :
                         /\ IsManualZip(listdir.entries[i])
                         /\ \A j \in 1..(i - 1) : ~IsManualZip(listdir.entries[j])
         IN  IF listdir.entries[first].is_zip
             THEN [ raised |-> [type |-> "TypeError", line |-> 60], value |-> <<>> ]
             ELSE [ raised |-> [type |-> "BadZipFile", line |-> 64], value |-> <<>> ]
    ELSE [ raised |-> NoException, value |-> <<>> ]

\* submissions_to_ingest (ingest_submissions.py:78-83): valid_submissions is
\* read from its end and a submission is kept when its user was not seen.
RECURSIVE LastOfEachUser(_)
LastOfEachUser(valid_submissions) ==
    IF valid_submissions = <<>> THEN <<>>
    ELSE LET n == Len(valid_submissions)
             submission == valid_submissions[n]
             rest == LastOfEachUser(SubSeq(valid_submissions, 1, n - 1))
         IN  <<submission>> \o SelectSeq(rest, LAMBDA x : x.user # submission.user)

\* The locals of main where an exception ends it.
Raised(exception, all_submissions, listdir, valid_submissions, submissions_to_ingest) ==
    [ pc |-> "raised", raised |-> exception, all_submissions |-> all_submissions,
      listdir |-> listdir, valid_submissions |-> valid_submissions,
      submissions_to_ingest |-> submissions_to_ingest ]

\* main (ingest_submissions.py:33-147).  print_stats takes the max of the dates
\* of all_submissions and raises ValueError when there is none
\* (submission.py:31); the statement of the manual submissions (lines 59-71)
\* raises FileNotFoundError, BadZipFile or TypeError unless submissions/ is
\* there and holds no file named *.zip; and the call
\* list_ingested_system_ids() of line 91 raises TypeError, the function
\* requiring an engine (submission.py:75).  The loop of lines 97-106 is not
\* reached and the tables are not written.
StartScript(listed, listdir) ==
    /\ script.pc = "idle"
    /\ LET all_submissions == SortedById(listed)
           valid_submissions == ValidSubmissions(all_submissions)
           manual_submissions == ManualSubmissions(listdir)
       IN  script' =
             IF all_submissions = <<>>
             THEN Raised([type |-> "ValueError", line |-> 41], all_submissions, listdir, <<>>, <<>>)
             ELSE IF manual_submissions.raised # NoException
             THEN Raised(manual_submissions.raised, all_submissions, listdir,
                         valid_submissions, <<>>)
             ELSE Raised([type |-> "TypeError", line |-> 91], all_submissions, listdir,
                         valid_submissions \o manual_submissions.value,
                         LastOfEachUser(valid_submissions \o manual_submissions.value))
    /\ UNCHANGED <<outputs, votes, pending, req, http, ingest, systems, scoring, conn>>

NextScript ==
    \E listed \in ListSubmissions, listdir \in ListDirs : StartScript(listed, listdir)

SpecScript == InitIngest /\ [][NextScript]_vars

(***************************************************************************)
(* The session of a request (__main__.py:62-94).  A value of a query       *)
(* parameter or cookie is NoField when the request does not carry it, and  *)
(* can be the empty text.  The model follows one request to /battles and   *)
(* one to /vote at a time.                                                 *)
(***************************************************************************)
\* What _generate_id can return (__main__.py:62-63): a text of 100 random
\* characters, here one of two; a call returns either, whatever the calls
\* before it returned.
GeneratedIds == {"G1", "G2"}

\* f"prolific-id-{prolific_id}-{session_id}" (__main__.py:70) on the values of
\* the model.
ProlificSessionId(prolific_id, session_id) ==
    CASE <<prolific_id, session_id>> = <<"P1", "Z1">> -> "prolific-id-P1-Z1"
      [] <<prolific_id, session_id>> = <<"P2", "Z1">> -> "prolific-id-P2-Z1"

\* A value that Python takes as true: a text that is there and is not empty.
Truthy(text) == text # NoField /\ text # ""

\* _get_session_id (__main__.py:66-72); `generated` is what _generate_id returns
\* when it is called.
_get_session_id(PROLIFIC_PID, SESSION_ID, id, generated) ==
    IF Truthy(PROLIFIC_PID) /\ Truthy(SESSION_ID)
    THEN ProlificSessionId(PROLIFIC_PID, SESSION_ID)
    ELSE IF Truthy(id) THEN id ELSE generated

\* A send_with_headers that asks _get_session_id again when it writes the
\* cookie: for a request without Prolific parameters and cookie, _generate_id
\* is called a second time and returns another ID.
SetCookieIdOfSecondCall(scope) ==
    _get_session_id(scope.PROLIFIC_PID, scope.SESSION_ID, scope.id,
                    CHOOSE generated \in GeneratedIds : generated # scope.session_id)

\* The value send_with_headers writes after `id=` (__main__.py:91): the local
\* session_id of the __call__ that serves the request.
SetCookieId(scope) == scope.session_id

\* CacheControlMiddleware.__call__ up to the call of the application
\* (__main__.py:79-85, 94): session_id, the one result of _get_session_id, is
\* kept as a local of the call and stored in the state of the scope, from
\* which the route reads request.state.session_id.  No header has been written
\* yet.
CacheControlMiddleware(path, PROLIFIC_PID, SESSION_ID, id, generated) ==
    LET session_id == _get_session_id(PROLIFIC_PID, SESSION_ID, id, generated)
    IN  conn' = [conn EXCEPT ![path] =
                    [ stage |-> "request", PROLIFIC_PID |-> PROLIFIC_PID,
                      SESSION_ID |-> SESSION_ID, id |-> id, session_id |-> session_id,
                      state |-> [session_id |-> session_id],
                      set_cookie |-> [id |-> NoField] ]]

\* send_with_headers on the message http.response.start (__main__.py:87-92):
\* the Set-Cookie header of the response is written.
send_with_headers(path) ==
    conn' = [conn EXCEPT ![path].stage = "response",
                         ![path].set_cookie = [id |-> SetCookieId(conn[path])]]

\* The id cookies a response has set.
SetCookies == { conn[path].set_cookie.id : path \in Paths } \ {NoField}

\* What the GET /battles requests of the model carry as PROLIFIC_PID,
\* SESSION_ID and id cookie: nothing; both Prolific parameters and a cookie the
\* server did not set; one Prolific parameter and that cookie; a cookie that a
\* response has set.
BattlesInputs ==
    { <<NoField, NoField, NoField>>, <<"P1", "Z1", "X">>, <<"P1", NoField, "X">> }
    \cup { <<NoField, NoField, id>> : id \in SetCookies }

\* What the POST /vote requests of the model carry: an empty cookie; a cookie
\* the server did not set, on the first request of its client; an empty
\* PROLIFIC_PID; a cookie that a response has set.
VoteInputs ==
    { <<NoField, NoField, "">>, <<NoField, NoField, "X">>, <<"", "Z1", NoField>> }
    \cup { <<NoField, NoField, id>> : id \in SetCookies }

\* GET /battles?task=a-es&batch_size=1 comes in through the middleware and
\* battles_route starts under request.state.session_id.
BattlesRequest(PROLIFIC_PID, SESSION_ID, id, generated) ==
    /\ CacheControlMiddleware("/battles", PROLIFIC_PID, SESSION_ID, id, generated)
    /\ battles_route(conn'["/battles"].state.session_id, "a-es", 1, <<>>)

\* The response of GET /battles starts: battles_route has returned its list.
BattlesResponse ==
    /\ conn["/battles"].stage = "request"
    /\ end_call
    /\ send_with_headers("/battles")

\* POST /vote comes in through the middleware; vote_route awaits the form and
\* the answer of the turnstile (__main__.py:301-303).
VoteRequest(PROLIFIC_PID, SESSION_ID, id, generated) ==
    /\ AtAwait
    /\ conn["/vote"].stage # "request"
    /\ CacheControlMiddleware("/vote", PROLIFIC_PID, SESSION_ID, id, generated)
    /\ UNCHANGED <<outputs, votes, pending, req, http, ingest, systems, scoring, script>>

\* vote_route goes on under request.state.session_id, with a complete form and
\* the token of a served battle, and its response starts.
VoteResponse(turnstile) ==
    /\ conn["/vote"].stage = "request"
    /\ vote_route(conn["/vote"].state.session_id, turnstile,
                  [vote |-> "a", is_offensive_a |-> "false", is_offensive_b |-> "false"],
                  _encrypt_as_battle_token("en_1", "S1", "S2"))
    /\ send_with_headers("/vote")

NextSession ==
    \/ \E r \in BattlesInputs, generated \in GeneratedIds :
          BattlesRequest(r[1], r[2], r[3], generated)
    \/ \E r \in VoteInputs, generated \in GeneratedIds :
          VoteRequest(r[1], r[2], r[3], generated)
    \/ \E turnstile \in BOOLEAN : VoteResponse(turnstile)
    \/ ExecuteSystemNonSkipVoteCounts
    \/ ExecutePromptNonSkipVoteCounts
    \/ ExecuteSessionOutputVoteCounts
    \/ YieldBattle
    \/ FinishBattles
    \/ BattlesResponse
    \/ AddVote

(***************************************************************************)
(* The web application: the ledger starts empty and grows by votes.        *)
(***************************************************************************)
WebTables == { TableOf({"S1", "S2"}, "own") }

Init ==
    /\ outputs \in WebTables
    /\ votes = {}
    /\ pending = {}
    /\ req = IdleCall
    /\ http = NoResponse
    /\ ingest = NoIngest
    /\ systems = SystemsWithOutputs(outputs)
    /\ scoring = NoScoring
    /\ script = NoRun
    /\ conn = NoRequest

\* The vote requests of the web application: the complete forms with an allowed
\* vote of session X on the battle of en_1 between S1 and S2, in both orders,
\* one vote of session Y on that battle, and requests of session X that are
\* refused or ignored.
WebVoteRequests ==
    { <<"X", TRUE, form, token>> :
        form \in { f \in VoteForms : HasVoteFields(f) /\ f.vote \in VOTE_CHOICES },
        token \in VoteTokens \ {TamperedToken, MalformedToken, EmptyToken} }
    \cup { <<"Y", TRUE, [vote |-> "a", is_offensive_a |-> "true", is_offensive_b |-> "false"],
             _encrypt_as_battle_token("en_1", "S1", "S2")>> }
    \cup { <<"X", r[1], r[2], r[3]>> :
             r \in { <<FALSE, [vote |-> "a", is_offensive_a |-> "true", is_offensive_b |-> "false"],
                       _encrypt_as_battle_token("en_1", "S1", "S2")>>,
                     <<TRUE, [vote |-> "x", is_offensive_a |-> "false", is_offensive_b |-> "false"],
                       _encrypt_as_battle_token("en_1", "S1", "S2")>>,
                     <<TRUE, [vote |-> "a", is_offensive_a |-> "false", is_offensive_b |-> NoField],
                       _encrypt_as_battle_token("en_1", "S1", "S2")>>,
                     <<TRUE, [vote |-> "a", is_offensive_a |-> "true", is_offensive_b |-> "false"],
                       TamperedToken>> } }

\* Both sessions vote; the battles calls followed are those of session X, with
\* no ignored_tokens or with one that does not decrypt.
Next ==
    \/ \E task_in \in TaskInputs, batch_in \in BatchInputs,
          ignored_tokens \in {<<>>, <<TamperedToken>>} :
          BattlesRoute("X", task_in, batch_in, ignored_tokens)
    \/ ExecuteSystemNonSkipVoteCounts
    \/ ExecutePromptNonSkipVoteCounts
    \/ ExecuteSessionOutputVoteCounts
    \/ YieldBattle
    \/ EmptyScan
    \/ FinishBattles
    \/ EndCall
    \/ \E r \in WebVoteRequests : VoteRoute(r[1], r[2], r[3], r[4])
    \/ AddVote
    \/ \E session_id \in Sessions : VoteCountRoutes(session_id)

Spec == Init /\ [][Next]_vars

\* Requests of clients that come with and without Prolific parameters and
\* cookies, and that return the cookie they were sent.
SpecSession == Init /\ [][NextSession]_vars

(***************************************************************************)
(* The selector by itself: every outputs table of the model, every ledger  *)
(* of at most MaxVotes votes on served battles.                            *)
(***************************************************************************)

\* The rows the ledgers of InitSelect are made of: votes and skips of session X
\* on the battles of en_1 and a vote of it on es_1, and votes of session Y on
\* battles of en_2.  The rows are rows of served battles.
SelectVotes ==
    { <<"X", "en_1", "S1", "S2", "a">>, <<"X", "en_1", "S1", "S2", "n">>,
      <<"X", "en_1", "S1", "S3", "a">>, <<"X", "en_1", "S1", "S3", "n">>,
      <<"X", "en_1", "S2", "S3", "a">>, <<"X", "en_1", "S2", "S3", "n">>,
      <<"X", "es_1", "S1", "S2", "a">>,
      <<"Y", "en_2", "S1", "S2", "a">>, <<"Y", "en_2", "S1", "S3", "a">> }

SelectRows(table) ==
    { VoteRow(k[1], k[2], k[3], k[4], k[5], FALSE, FALSE) :
        k \in { x \in SelectVotes :
                  /\ table[<<x[2], x[3]>>] # NoOutput
                  /\ table[<<x[2], x[4]>>] # NoOutput
                  /\ table[<<x[2], x[3]>>] # table[<<x[2], x[4]>>] } }

SelectLedgers(table) ==
    { l \in SUBSET SelectRows(table) :
        /\ Cardinality(l) <= MaxVotes
        /\ \A r1, r2 \in l : VoteKey(r1) = VoteKey(r2) => r1 = r2 }

InitSelect ==
    /\ outputs \in SelectTables
    /\ votes \in SelectLedgers(outputs)
    /\ pending = {}
    /\ req = IdleCall
    /\ http = NoResponse
    /\ ingest = NoIngest
    /\ systems = SystemsWithOutputs(outputs)
    /\ scoring = NoScoring
    /\ script = NoRun
    /\ conn = NoRequest

NextSelect ==
    \/ \E task_in \in TaskInputs, batch_in \in BatchInputs, ignored_tokens \in IgnoredTokenInputs :
          BattlesRoute("X", task_in, batch_in, ignored_tokens)
    \/ ExecuteSystemNonSkipVoteCounts
    \/ ExecutePromptNonSkipVoteCounts
    \/ ExecuteSessionOutputVoteCounts
    \/ YieldBattle
    \/ EmptyScan
    \/ FinishBattles
    \/ EndCall
    \/ \E task \in {"a-en", "a-es"}, batch_size \in 1..MaxBatch : RandomBattles(task, batch_size)

SpecSelect == InitSelect /\ [][NextSelect]_vars

(***************************************************************************)
(* Concurrent writers: add_vote background tasks of several requests are   *)
(* in flight at once.  Each runs one INSERT statement in a transaction of  *)
(* its own (database.py:520-532): the statements take effect one at a      *)
(* time, in any order.                                                     *)
(***************************************************************************)
MaxWriters == 3    \* add_vote calls in flight at once

\* The add_vote calls vote_route can schedule: __main__.py:320-330 on the forms
\* and tokens of the model.
WriterTasks ==
    { [ session_id |-> session_id, prompt_id |-> id.prompt_id,
        system_id_a |-> id.system_id_a, system_id_b |-> id.system_id_b,
        vote |-> form.vote,
        is_offensive_a |-> LowerIsTrue(form.is_offensive_a),
        is_offensive_b |-> LowerIsTrue(form.is_offensive_b) ]
      : session_id \in Sessions,
        id \in { _decrypt_battle_token(token) :
                   token \in { x \in VoteTokens : _decrypt_battle_token(x).ok } },
        form \in { f \in VoteForms : HasVoteFields(f) /\ f.vote \in VOTE_CHOICES } }

InitWriters ==
    /\ outputs \in WebTables
    /\ votes = {}
    /\ pending \in { w \in SUBSET WriterTasks : Cardinality(w) <= MaxWriters }
    /\ req = IdleCall
    /\ http = NoResponse
    /\ ingest = NoIngest
    /\ systems = SystemsWithOutputs(outputs)
    /\ scoring = NoScoring
    /\ script = NoRun
    /\ conn = NoRequest

NextWriters == AddVote

SpecWriters == InitWriters /\ [][NextWriters]_vars

(***************************************************************************)
(* Calls of a session with a battle pending in its buffer: four systems    *)
(* with outputs for every prompt, as ingestion leaves them, and ledgers of *)
(* votes and skips of the session on the other prompt of the task.         *)
(***************************************************************************)
PendingVotes ==
    { <<"X", "en_2", "S3", "S4", "n">>, <<"X", "en_2", "S3", "S4", "a">>,
      <<"X", "en_2", "S1", "S2", "n">>, <<"Y", "en_1", "S1", "S2", "a">> }

PendingLedgers ==
    { l \in SUBSET { VoteRow(k[1], k[2], k[3], k[4], k[5], FALSE, FALSE) : k \in PendingVotes } :
        /\ Cardinality(l) <= MaxVotes
        /\ \A r1, r2 \in l : VoteKey(r1) = VoteKey(r2) => r1 = r2 }

\* The ignored_tokens of the calls: none, or the token of a battle on en_1.
PendingTokenInputs ==
    { <<>>, << _encrypt_as_battle_token("en_1", "S1", "S2") >>,
      << _encrypt_as_battle_token("en_1", "S4", "S3") >> }

InitPending ==
    /\ outputs = TableOf({"S1", "S2", "S3", "S4"}, "own")
    /\ votes \in PendingLedgers
    /\ pending = {}
    /\ req = IdleCall
    /\ http = NoResponse
    /\ ingest = NoIngest
    /\ systems = SystemsWithOutputs(outputs)
    /\ scoring = NoScoring
    /\ script = NoRun
    /\ conn = NoRequest

NextPending ==
    \/ \E task_in \in {"a-en", "a-zh"}, batch_in \in 1..MaxBatch, ignored_tokens \in PendingTokenInputs :
          BattlesRoute("X", task_in, batch_in, ignored_tokens)
    \/ ExecuteSystemNonSkipVoteCounts
    \/ ExecutePromptNonSkipVoteCounts
    \/ ExecuteSessionOutputVoteCounts
    \/ YieldBattle
    \/ EmptyScan
    \/ FinishBattles
    \/ EndCall

SpecPending == InitPending /\ [][NextPending]_vars

(***************************************************************************)
(* Votes on served battles: the battles of three systems, one with a bar   *)
(* in its ID, are served and voted on with the tokens they came with.      *)
(***************************************************************************)
\* The battles the selector can yield for a task on the outputs table, in both
\* orders of presentation.
ServedBattles(task) ==
    { _create_battle_with_prompt(b[1], b[2], outputs[<<b[1], b[2]>>], b[3], outputs[<<b[1], b[3]>>], coin) :
        b \in { x \in ServableBattles : prompt_id_to_task(x[1]) = task }, coin \in BOOLEAN }

\* The vote forms with the three fields and an allowed vote.
ValidVoteForms == { f \in VoteForms : HasVoteFields(f) /\ f.vote \in VOTE_CHOICES }

InitToken ==
    /\ outputs = TableOf({"S1", "S2", "S|5"}, "own")
    /\ votes = {}
    /\ pending = {}
    /\ req = IdleCall
    /\ http = NoResponse
    /\ ingest = NoIngest
    /\ systems = SystemsWithOutputs(outputs)
    /\ scoring = NoScoring
    /\ script = NoRun
    /\ conn = NoRequest

NextToken ==
    \/ \E task_in \in {"a-es", "a-zh"}, batch_in \in 1..MaxBatch :
          BattlesRoute("X", task_in, batch_in, <<>>)
    \/ ExecuteSystemNonSkipVoteCounts
    \/ ExecutePromptNonSkipVoteCounts
    \/ ExecuteSessionOutputVoteCounts
    \/ YieldBattle
    \/ EmptyScan
    \/ FinishBattles
    \/ EndCall
    \/ \E form \in ValidVoteForms, battle \in ServedBattles("a-es") :
          VoteRoute("X", TRUE, form, _simplify_battle_object(battle).token)
    \/ AddVote

SpecToken == InitToken /\ [][NextToken]_vars

(***************************************************************************)
(* The vote recorder by itself: every vote form and token of both          *)
(* sessions, with and without the turnstile, and the background tasks.     *)
(***************************************************************************)
NextVote ==
    \/ \E session_id \in Sessions, turnstile \in BOOLEAN,
          form \in VoteForms, token \in VoteTokens :
          VoteRoute(session_id, turnstile, form, token)
    \/ AddVote

SpecVote == Init /\ [][NextVote]_vars

(***************************************************************************)
(* The reads of the scoring scripts (database.py:535-688) over ledgers of  *)
(* votes on battles of four systems.                                       *)
(***************************************************************************)
MaxScoringVotes == 3   \* rows of the ledgers the scoring reads start from

\* get_systems (database.py:612-622).
get_systems(task) == { o[2] : o \in StatementTaskOutputs(task) }

\* The votes the queries of the scoring reads keep: those of the task that are
\* no skips and come from no excluded session (database.py:650-659, 565-573).
VotesAndPrompts(task, excluded_session_ids) ==
    { r \in votes : /\ prompt_id_to_task(r.prompt_id) = task
                    /\ r.vote # "n"
                    /\ r.session_id \notin excluded_session_ids }

\* The query of _get_votes_per_system (database.py:636-671): system_votes has
\* one line per vote and per system with outputs that is on a side of it, and
\* votes_and_prompts_per_system has two lines, one per side, for each of them.
_get_votes_per_system(task, excluded_session_ids) ==
    LET system_ids_with_outputs == get_systems(task)
        kept == VotesAndPrompts(task, excluded_session_ids)
        lines(r) == Cardinality({ x \in system_ids_with_outputs :
                                    r.system_id_a = x \/ r.system_id_b = x })
        count(x) == SumOver([r \in kept |->
                               lines(r) * ((IF r.system_id_a = x THEN 1 ELSE 0)
                                           + (IF r.system_id_b = x THEN 1 ELSE 0))], kept)
    IN  [x \in { y \in Systems : count(y) > 0 } |-> count(x)]

\* system_id_to_vote_count.setdefault(system_id, 0) for the systems of
\* get_systems (database.py:685-686).
SetDefaultSystems(system_id_to_vote_count, system_ids) ==
    [x \in DOMAIN system_id_to_vote_count \cup system_ids |->
        IF x \in DOMAIN system_id_to_vote_count THEN system_id_to_vote_count[x] ELSE 0]

\* What get_votes_per_system (database.py:676-688) returns when its two
\* statements read one state of the tables: the counts of the query, and 0 for
\* the systems of get_systems the query has no line for.
get_votes_per_system(task, excluded_session_ids) ==
    SetDefaultSystems(_get_votes_per_system(task, excluded_session_ids), get_systems(task))

\* The read of a scoring script that is in progress, or has returned.
ScoringCall(pc, task, excluded_session_ids, system_id_to_vote_count, result) ==
    [ pc |-> pc, task |-> task, excluded_session_ids |-> excluded_session_ids,
      system_id_to_vote_count |-> system_id_to_vote_count, votes |-> result ]

\* A script calls get_votes_per_system (database.py:676-680): the dict starts
\* empty.  The scripts run in a process of their own, whatever the web
\* application does.
GetVotesPerSystem(task, excluded_session_ids) ==
    /\ scoring.pc \in {"idle", "returned"}
    /\ scoring' = ScoringCall("votes_per_system", task, excluded_session_ids, [x \in {} |-> 0], {})
    /\ UNCHANGED <<outputs, votes, pending, req, http, ingest, systems, script, conn>>

\* The statement of _get_votes_per_system is executed on a connection of its
\* own and its lines are put in the dict (database.py:681-682, 636-673).
ExecuteVotesPerSystem ==
    /\ scoring.pc = "votes_per_system"
    /\ scoring' = [scoring EXCEPT !.pc = "get_systems",
                                  !.system_id_to_vote_count =
                                      _get_votes_per_system(scoring.task,
                                                            scoring.excluded_session_ids)]
    /\ UNCHANGED <<outputs, votes, pending, req, http, ingest, systems, script, conn>>

\* The statement of get_systems is executed on another connection, the
\* systems without a line get 0, and the dict is returned (database.py:684-688,
\* 612-622).
ExecuteGetSystems ==
    /\ scoring.pc = "get_systems"
    /\ scoring' = [scoring EXCEPT !.pc = "returned",
                                  !.system_id_to_vote_count =
                                      SetDefaultSystems(scoring.system_id_to_vote_count,
                                                        get_systems(scoring.task))]
    /\ UNCHANGED <<outputs, votes, pending, req, http, ingest, systems, script, conn>>

\* get_votes_for_scoring (database.py:535-609): of the kept votes, those whose
\* system_id_a is the system_id_b of a kept vote and whose system_id_b is the
\* system_id_a of a kept vote.
get_votes_for_scoring(task, excluded_session_ids) ==
    LET votes_and_prompts == VotesAndPrompts(task, excluded_session_ids)
        systems_a == { r.system_id_a : r \in votes_and_prompts }
        systems_b == { r.system_id_b : r \in votes_and_prompts }
    IN  { v \in votes_and_prompts : /\ v.system_id_a \in systems_b
                                    /\ v.system_id_b \in systems_a }

\* A script reads the votes to score the systems (database.py:535-609): one
\* statement, whose lines are the votes the call yields.
GetVotesForScoring(task, excluded_session_ids) ==
    /\ scoring.pc \in {"idle", "returned"}
    /\ scoring' = ScoringCall("returned", task, excluded_session_ids, [x \in {} |-> 0],
                              get_votes_for_scoring(task, excluded_session_ids))
    /\ UNCHANGED <<outputs, votes, pending, req, http, ingest, systems, script, conn>>

\* The rows of the ledgers: votes of session X on a chain of battles of en_1, a
\* skip of it, a vote of session Y and a vote on es_1.
ScoringVotes ==
    { <<"X", "en_1", "S1", "S2", "a">>, <<"X", "en_1", "S2", "S3", "a">>,
      <<"X", "en_1", "S3", "S4", "a">>, <<"X", "en_1", "S3", "S4", "n">>,
      <<"Y", "en_1", "S2", "S1", "b">>, <<"X", "es_1", "S1", "S2", "a">> }

ScoringLedgers ==
    { l \in SUBSET { VoteRow(k[1], k[2], k[3], k[4], k[5], FALSE, FALSE) : k \in ScoringVotes } :
        /\ Cardinality(l) <= MaxScoringVotes
        /\ \A r1, r2 \in l : VoteKey(r1) = VoteKey(r2) => r1 = r2 }

\* The add_vote calls in flight while the scripts read.
ScoringTasks ==
    { [ session_id |-> "Y", prompt_id |-> "en_2", system_id_a |-> a, system_id_b |-> b,
        vote |-> "a", is_offensive_a |-> FALSE, is_offensive_b |-> FALSE ] :
        a \in {"S1", "S4"}, b \in {"S2", "S3"} }

InitScoring ==
    /\ outputs = TableOf({"S1", "S2", "S3", "S4"}, "own")
    /\ votes \in ScoringLedgers
    /\ pending \in { w \in SUBSET ScoringTasks : Cardinality(w) <= 1 }
    /\ req = IdleCall
    /\ http = NoResponse
    /\ ingest = NoIngest
    /\ systems = SystemsWithOutputs(outputs)
    /\ scoring = NoScoring
    /\ script = NoRun
    /\ conn = NoRequest

NextScoring ==
    \/ AddVote
    \/ \E task \in {"a-en", "a-es"}, excluded_session_ids \in SUBSET Sessions :
          GetVotesPerSystem(task, excluded_session_ids)
    \/ ExecuteVotesPerSystem
    \/ ExecuteGetSystems
    \/ \E task \in {"a-en", "a-es"}, excluded_session_ids \in SUBSET Sessions :
          GetVotesForScoring(task, excluded_session_ids)

SpecScoring == InitScoring /\ [][NextScoring]_vars

(***************************************************************************)
(* Batch sizes at and beyond the ends of the clamp, on the table of the    *)
(* web application and an empty ledger.                                    *)
(***************************************************************************)
\* batch_size values a client can send: negative, zero, small, and above
\* REQUEST_BATTLE_BATCH_SIZE.
ClampInputs == {0 - 1, 0, 1, MaxBatch, REQUEST_BATTLE_BATCH_SIZE + 1, 2 * REQUEST_BATTLE_BATCH_SIZE + MaxBatch}

NextClamp ==
    \/ \E task_in \in {"a-en", "a-es", "a-zh"}, batch_in \in ClampInputs :
          BattlesRoute("X", task_in, batch_in, <<>>)
    \/ ExecuteSystemNonSkipVoteCounts
    \/ ExecutePromptNonSkipVoteCounts
    \/ ExecuteSessionOutputVoteCounts
    \/ YieldBattle
    \/ EmptyScan
    \/ FinishBattles
    \/ EndCall

SpecClamp == Init /\ [][NextClamp]_vars

\* The ignored_tokens of the calls of NextBatch: none, or the token of a battle
\* of en_1.
BatchTokenInputs ==
    { <<>>, << _encrypt_as_battle_token("en_1", "S1", "S2") >>,
      << _encrypt_as_battle_token("en_1", "S3", "S2") >> }

\* The tables of the calls of NextBatch: one system, two systems with their own
\* texts or with one text for en_1, and three systems of which two have one
\* text for the prompts of a-en.
BatchTables ==
    { TableOf({"S1"}, "own"), TableOf({"S1", "S2"}, "own"), TableOf({"S1", "S2"}, "sameP1"),
      TableOf({"S1", "S2", "S3"}, "same") }

InitBatch ==
    /\ outputs \in BatchTables
    /\ votes \in SelectLedgers(outputs)
    /\ pending = {}
    /\ req = IdleCall
    /\ http = NoResponse
    /\ ingest = NoIngest
    /\ systems = SystemsWithOutputs(outputs)
    /\ scoring = NoScoring
    /\ script = NoRun
    /\ conn = NoRequest

\* Calls of the selector alone, for the tasks with prompts, with and without
\* an ignore-list.
NextBatch ==
    \/ \E task_in \in {"a-en", "a-es"}, batch_in \in 1..MaxBatch,
          ignored_tokens \in BatchTokenInputs :
          BattlesRoute("X", task_in, batch_in, ignored_tokens)
    \/ ExecuteSystemNonSkipVoteCounts
    \/ ExecutePromptNonSkipVoteCounts
    \/ ExecuteSessionOutputVoteCounts
    \/ YieldBattle
    \/ EmptyScan
    \/ FinishBattles
    \/ EndCall

SpecBatch == InitBatch /\ [][NextBatch]_vars

FairSpecBatch ==
    SpecBatch
    /\ WF_vars(ExecuteSystemNonSkipVoteCounts) /\ WF_vars(ExecutePromptNonSkipVoteCounts)
    /\ WF_vars(ExecuteSessionOutputVoteCounts)
    /\ WF_vars(YieldBattle) /\ WF_vars(EmptyScan) /\ WF_vars(FinishBattles)

\* The selector under the scheduling of the process: a call that has started
\* keeps running (the loop is synchronous code between two awaits).
FairSpecSelect ==
    SpecSelect
    /\ WF_vars(ExecuteSystemNonSkipVoteCounts) /\ WF_vars(ExecutePromptNonSkipVoteCounts)
    /\ WF_vars(ExecuteSessionOutputVoteCounts)
    /\ WF_vars(YieldBattle) /\ WF_vars(EmptyScan) /\ WF_vars(FinishBattles)

(***************************************************************************)
(* Properties.                                                             *)
(***************************************************************************)
\* A turn of the selector's loop has yielded a battle.
Yielded ==
    /\ req.pc = "loop"
    /\ req'.pc = "loop"
    /\ req'.num_returned = req.num_returned + 1

\* The systems and the prompts that have outputs in a task.
SystemsOf(task) == { o[2] : o \in StatementTaskOutputs(task) }
PromptsOf(task) == { o[1] : o \in StatementTaskOutputs(task) }

\* Output o has a partner: an output of its prompt, of another system, with
\* another text.
HasValidPartner(o) ==
    \E s \in Systems :
        /\ outputs[<<o[1], s>>] # NoOutput
        /\ s # o[2]
        /\ outputs[<<o[1], s>>] # outputs[o]

\* The largest difference between the counts of two systems of S.
Spread(count, S) ==
    IF S = {} THEN 0
    ELSE LET hi == CHOOSE x \in S : \A y \in S : count[y] <= count[x]
             lo == CHOOSE x \in S : \A y \in S : count[x] <= count[y]
         IN  count[hi] - count[lo]

\* The key of the votes row an add_vote task writes.
TaskKey(t) == <<t.prompt_id, t.system_id_a, t.system_id_b, t.session_id>>

\* The two outputs of battle b are outputs of one prompt and of two systems.
OnePromptTwoSystems(b) ==
    /\ b.prompt_id = b.prompt_id_b
    /\ b.system_id_a # b.system_id_b
    /\ outputs[<<b.prompt_id, b.system_id_a>>] = b.text_a
    /\ outputs[<<b.prompt_id_b, b.system_id_b>>] = b.text_b

\* C1: every battle yielded by random_least_voted_unseen_battles or by
\* random_battles has its two outputs on the same prompt and from two different
\* systems, whatever the outputs table, the ledger, the session and the ignore
\* list.
C1_BattleSides ==
    /\ req.last # NoBattle => OnePromptTwoSystems(req.last)
    /\ \A b \in req.random : OnePromptTwoSystems(b)

C1_Witness ==
    /\ req.pc = "loop"
    /\ req.num_returned = 2
    /\ req.last # NoBattle
    /\ req.ignored_output_ids # <<>>
    /\ votes # {}

\* C2: an add_vote whose (session_id, prompt_id, system_id_a, system_id_b) is
\* the key of a row of the ledger changes nothing: every row stays as it was,
\* the first vote's value and flags with it, and the ledger holds exactly one
\* row of the key after the call.
C2_FirstVoteKept ==
    [][ \A t \in pending \ pending' :
            /\ \A r \in votes : r \in votes'
            /\ Cardinality({ r \in votes' : VoteKey(r) = TaskKey(t) }) = 1 ]_vars

C2_Witness ==
    \E t \in pending : \E r \in votes :
        /\ VoteKey(r) = TaskKey(t)
        /\ r.vote # t.vote
        /\ r.is_offensive_a # t.is_offensive_a

\* C3: random_least_voted_unseen_battles terminates for every input: a call
\* that has entered its loop leaves it, also when no output of the task has a
\* valid partner.
C3_Terminates == (req.pc = "loop") ~> (req.pc = "done")

\* C4: no output of ignored_output_ids is a side, anchor or partner, of a battle
\* yielded by the same call of random_least_voted_unseen_battles.
C4_IgnoredNotYielded ==
    req.last # NoBattle =>
        \A i \in DOMAIN req.ignored_output_ids :
            /\ req.ignored_output_ids[i] # <<req.last.prompt_id, req.last.system_id_a>>
            /\ req.ignored_output_ids[i] # <<req.last.prompt_id, req.last.system_id_b>>

\* C5: in every turn of the loop, the 4-tuple (session count of the output,
\* non-skip count of its system, session count of its prompt, non-skip count of
\* its prompt) of the anchor, on the counters the turn starts with, is less than
\* or equal to, in lexicographic order, the 4-tuple of every output of the task
\* that has a valid partner.
C5_AnchorLeast ==
    [][ Yielded =>
          LET a == <<req'.last.prompt_id, req'.last.anchor>>
              Tuple(o) == << req.session_voted_outputs[o],
                             req.system_id_to_non_skip_vote_count[o[2]],
                             req.session_voted_prompts[o[1]],
                             req.prompt_id_to_non_skip_vote_count[o[1]] >>
          IN  /\ a \in StatementTaskOutputs(req.task)
              /\ HasValidPartner(a)
              /\ \A o \in StatementTaskOutputs(req.task) :
                    HasValidPartner(o) => TupleLeq(Tuple(a), Tuple(o)) ]_vars

C5_Witness ==
    /\ req.pc = "loop"
    /\ req.num_returned = 2
    /\ \E r \in votes : r.session_id = req.session_id /\ r.vote # "n"
                        /\ prompt_id_to_task(r.prompt_id) = req.task
    /\ \E o \in StatementTaskOutputs(req.task) :
          /\ HasValidPartner(o)
          /\ req.session_voted_outputs[o] = 0

\* C6: the partner of every battle yielded by the selector is an output of the
\* anchor's prompt, of another system and with another text than the anchor's,
\* and its session count, on the counters the turn starts with, is the least
\* among the outputs of the prompt that meet these two conditions.
C6_PartnerLeastSeen ==
    [][ Yielded =>
          LET p == req'.last.prompt_id
              a == req'.last.anchor
              b == req'.last.partner
              Valid(s) == /\ outputs[<<p, s>>] # NoOutput
                          /\ s # a
                          /\ outputs[<<p, s>>] # outputs[<<p, a>>]
          IN  /\ Valid(b)
              /\ \A s \in Systems :
                    Valid(s) => req.session_voted_outputs[<<p, b>>]
                                    <= req.session_voted_outputs[<<p, s>>] ]_vars

\* The last turn had two valid partners and took the one seen less: the other
\* one's count, which the turn left alone, is at least the partner's count
\* after its increment.
C6_Witness ==
    /\ req.pc = "loop"
    /\ req.last # NoBattle
    /\ \E s \in Systems \ {req.last.anchor, req.last.partner} :
          /\ outputs[<<req.last.prompt_id, s>>] # NoOutput
          /\ outputs[<<req.last.prompt_id, s>>] # outputs[<<req.last.prompt_id, req.last.anchor>>]
          /\ req.session_voted_outputs[<<req.last.prompt_id, s>>]
                 >= req.session_voted_outputs[<<req.last.prompt_id, req.last.partner>>]

\* The scenario of C7: S1, S2 and S3 have outputs for en_1 and en_2, the ledger
\* holds one vote, of session X, on a battle of en_1 with S1 on a side, and the
\* call of session X for 2 battles of a-en with no ignore list has yielded its
\* first battle.
Scenario7 ==
    /\ outputs = TableOf({"S1", "S2", "S3"}, "own")
    /\ Cardinality(votes) = 1
    /\ \A r \in votes : /\ r.session_id = "X"
                        /\ r.prompt_id = "en_1"
                        /\ "S1" \in {r.system_id_a, r.system_id_b}
    /\ req.pc = "loop"
    /\ req.session_id = "X"
    /\ req.task = "a-en"
    /\ req.requested = 2
    /\ req.ignored_output_ids = <<>>
    /\ req.num_returned = 1

\* C7: in the scenario, whatever the value of the vote, the anchor of the first
\* battle is not (en_1, S1); when the vote is not a skip, the anchor is an
\* output of S2 or S3.
C7_FirstAnchor ==
    Scenario7 =>
        /\ <<req.last.prompt_id, req.last.anchor>> # <<"en_1", "S1">>
        /\ (\A r \in votes : r.vote # "n") => req.last.anchor \in {"S2", "S3"}

C7_Witness == Scenario7 /\ \A r \in votes : r.vote # "n"

\* C7 as the specification words it: for any value of the vote, skip included,
\* the anchor of the first battle is not (en_1, S1) and is an output of S2 or S3.
C7_AnyVote ==
    Scenario7 =>
        /\ <<req.last.prompt_id, req.last.anchor>> # <<"en_1", "S1">>
        /\ req.last.anchor \in {"S2", "S3"}

\* Two systems have outputs for some prompt of the task.
TwoSystemsOnSomePrompt(task) ==
    \E o1, o2 \in StatementTaskOutputs(task) : o1[1] = o2[1] /\ o1[2] # o2[2]

\* C8: a call for a task in which two systems have outputs for some prompt
\* delivers batch_size battles, the shortfall of the selector being made up by
\* random_battles.
C8_BatchDelivered ==
    (req.pc = "loop" /\ TwoSystemsOnSomePrompt(req.task))
        ~> (req.pc = "done" /\ req.total = req.requested)

\* The counters the call started with: the ledger does not change during a call.
StartCounters ==
    MergeIgnored(LoadCounters(req.session_id, req.task), req.ignored_output_ids)

\* C9: in every turn of the loop of the selector no system's simulated non-skip
\* count decreases: a turn that yields a battle raises by one the counts of the
\* two systems of the battle and leaves the count of every other system as it
\* was.
C9_CountsStep ==
    [][ req.pc = "loop" /\ req'.pc \in {"loop", "done"} =>
          /\ \A s \in Systems : req'.system_id_to_non_skip_vote_count[s]
                                    >= req.system_id_to_non_skip_vote_count[s]
          /\ Yielded =>
                \A s \in Systems :
                    req'.system_id_to_non_skip_vote_count[s]
                        = req.system_id_to_non_skip_vote_count[s]
                          + (IF s \in {req'.last.system_id_a, req'.last.system_id_b} THEN 1 ELSE 0) ]_vars

\* A call on a task with 3 systems and 2 prompts whose counts started within 1
\* of each other has yielded 2 battles, and the counts are now 2 apart.
C9_Witness ==
    /\ req.pc = "loop"
    /\ req.num_returned = 2
    /\ Cardinality(SystemsOf(req.task)) = 3
    /\ Cardinality(PromptsOf(req.task)) = 2
    /\ Spread(StartCounters.system_id_to_non_skip_vote_count, SystemsOf(req.task)) <= 1
    /\ Spread(req.system_id_to_non_skip_vote_count, SystemsOf(req.task)) >= 2

\* C9 as the specification words it, for the calls whose counts start within 1
\* of each other: at the end of a call that yielded at least 2 battles on a task
\* with at least 2 systems and 2 prompts, no system's simulated count exceeds
\* another's by more than 1.
C9_BoundedImbalance ==
    ( /\ req.pc = "done"
      /\ req.num_returned >= 2
      /\ Cardinality(SystemsOf(req.task)) >= 2
      /\ Cardinality(PromptsOf(req.task)) >= 2
      /\ Spread(StartCounters.system_id_to_non_skip_vote_count, SystemsOf(req.task)) <= 1 )
    => Spread(req.system_id_to_non_skip_vote_count, SystemsOf(req.task)) <= 1

\* C10: a battles call of a session reads a ledger that holds a row for every
\* vote of the session that vote_route has answered with 204: no add_vote task
\* of the session is still waiting while the call is served.
C10_VoteVisible ==
    req.pc # "idle" =>
        \A t \in pending :
            t.session_id = req.session_id => \E r \in votes : VoteKey(r) = TaskKey(t)

\* C11: in every order in which concurrent add_vote calls take effect, a call
\* adds at most its own row and changes no other; the ledger holds exactly one
\* row of the call's key afterwards, and a key never has two rows: the row of
\* a key is the row of the call that inserted first.
C11_OneRowPerKey ==
    [][ \A t \in pending \ pending' :
            /\ votes \subseteq votes'
            /\ \A r \in votes' \ votes :
                  r = VoteRow(t.session_id, t.prompt_id, t.system_id_a, t.system_id_b,
                              t.vote, t.is_offensive_a, t.is_offensive_b)
            /\ \E r \in votes' : VoteKey(r) = TaskKey(t)
            /\ \A r1, r2 \in votes' : VoteKey(r1) = VoteKey(r2) => r1 = r2 ]_vars

\* Of two concurrent calls with one key and two vote values, one has inserted
\* and the other has run after it; a row of another key is in the ledger too.
C11_Witness ==
    /\ Cardinality(votes) = 2
    /\ \E t \in pending : \E r \in votes :
          VoteKey(r) = TaskKey(t) /\ r.vote # t.vote

\* C12: random_least_voted_unseen_battles reads and never writes, and its
\* counters belong to the call: no step of a call, up to whatever battle it has
\* reached, changes the votes or the outputs table; what each of its statements
\* gives the call is a function of the ledger the statement reads, and the
\* counters the loop starts with are these and the call's ignore list alone;
\* and nothing of a call is left once it is over.
C12_SelectionReadsOnly ==
    [][ /\ req' # req => (votes' = votes /\ outputs' = outputs)
        /\ (req.pc = "system_counts" /\ req'.pc = "prompt_counts") =>
              req'.system_id_to_non_skip_vote_count
                  = LoadCounters(req.session_id, req.task).system_id_to_non_skip_vote_count
        /\ (req.pc = "prompt_counts" /\ req'.pc = "session_counts") =>
              req'.prompt_id_to_non_skip_vote_count
                  = LoadCounters(req.session_id, req.task).prompt_id_to_non_skip_vote_count
        /\ (req.pc = "session_counts" /\ req'.pc = "loop") =>
              Counters(req') =
                  MergeIgnored([ LoadCounters(req.session_id, req.task) EXCEPT
                                   !.system_id_to_non_skip_vote_count =
                                       req.system_id_to_non_skip_vote_count,
                                   !.prompt_id_to_non_skip_vote_count =
                                       req.prompt_id_to_non_skip_vote_count ],
                               req.ignored_output_ids)
        /\ req'.pc = "idle" => req' = IdleCall ]_vars

\* A call over a ledger with votes has yielded two battles: its counters have
\* moved away from those of the ledger.
C12_Witness ==
    /\ req.pc = "loop"
    /\ req.num_returned = 2
    /\ votes # {}
    /\ Counters(req) # MergeIgnored(LoadCounters(req.session_id, req.task),
                                    req.ignored_output_ids)

\* C13: the ledger is append-only: whatever the step, a battles call, a vote
\* request, an add_vote or a read of the counts, every row of votes is in votes
\* after it, with its key, its vote and its flags.
C13_AppendOnly == [][ \A r \in votes : r \in votes' ]_vars

\* The ledger holds two rows, a third vote of one of their keys is waiting, and
\* a battles call has been served since.
C13_Witness ==
    /\ Cardinality(votes) = 2
    /\ \E t \in pending : \E r \in votes : VoteKey(r) = TaskKey(t) /\ r.vote # t.vote
    /\ req.pc = "done"

\* C14: a call never yields more than its batch_size battles, and battles_route
\* serves at most REQUEST_BATTLE_BATCH_SIZE battles whatever batch_size the
\* client sends: the batch_size of the call is between 1 and
\* REQUEST_BATTLE_BATCH_SIZE, a value below 1 counting as 1 and a value above
\* REQUEST_BATTLE_BATCH_SIZE as REQUEST_BATTLE_BATCH_SIZE.
C14_BatchBounded ==
    /\ req.pc \in {"loop", "done"} =>
          /\ req.requested \in 1..REQUEST_BATTLE_BATCH_SIZE
          /\ req.num_returned <= req.requested
          /\ req.num_returned + req.batch_size = req.requested
          /\ req.pc = "done" => req.total <= REQUEST_BATTLE_BATCH_SIZE
    /\ \A b \in ClampInputs :
          ClampBatchSize(b) = (IF b < 1 THEN 1
                               ELSE IF b > REQUEST_BATTLE_BATCH_SIZE THEN REQUEST_BATTLE_BATCH_SIZE
                               ELSE b)

\* A call whose client asked for more than REQUEST_BATTLE_BATCH_SIZE battles
\* (no client of ClampInputs asks for exactly that many) has been served
\* REQUEST_BATTLE_BATCH_SIZE battles.
C14_Witness ==
    /\ req.pc = "done"
    /\ req.requested = REQUEST_BATTLE_BATCH_SIZE
    /\ req.total = REQUEST_BATTLE_BATCH_SIZE

\* A submission the claim C15 is about: a vote value outside VOTE_CHOICES, or a
\* token that is missing, malformed or tampered.
BadSubmission(form, token) ==
    \/ form.vote # NoField /\ form.vote \notin VOTE_CHOICES
    \/ token \in {EmptyToken, MalformedToken, TamperedToken}

\* The step answers with a client error, schedules no add_vote and leaves the
\* ledger as it was.
RejectedStep ==
    /\ http'.status \in 400..499
    /\ pending' = pending
    /\ votes' = votes

\* C15: a vote submission that carries vote, is_offensive_a and is_offensive_b
\* and whose vote value is not an allowed choice, or whose battle token is
\* missing, malformed or tampered, is answered with a client error, schedules
\* no add_vote and leaves the ledger as it was: a step that does otherwise is
\* not the handling of such a submission.
C15_CompleteFormRejected ==
    [][ RejectedStep
        \/ \A session_id \in Sessions, turnstile \in BOOLEAN, form \in VoteForms, token \in VoteTokens :
              (HasVoteFields(form) /\ BadSubmission(form, token))
              => ~VoteRoute(session_id, turnstile, form, token) ]_vars

\* A submission has been answered 400 over a ledger that holds a vote.
C15_Witness == http.status = 400 /\ votes # {} /\ pending = {}

\* C15 as stated: every vote submission whose vote value is not an allowed
\* choice, or whose battle token is missing, malformed or tampered, is answered
\* with a client error and leaves the ledger as it was.
C15_Rejected ==
    [][ RejectedStep
        \/ \A session_id \in Sessions, turnstile \in BOOLEAN, form \in VoteForms, token \in VoteTokens :
              BadSubmission(form, token)
              => ~VoteRoute(session_id, turnstile, form, token) ]_vars

\* The votes of any type of a session, for a task, in which an output is on
\* either side.
SessionVotesOn(session_id, task, output) ==
    { r \in votes : /\ r.session_id = session_id
                    /\ prompt_id_to_task(r.prompt_id) = task
                    /\ r.prompt_id = output[1]
                    /\ output[2] \in {r.system_id_a, r.system_id_b} }

\* C16: the session-seen count a call loads for an output is the number of votes
\* of any type the session has cast, for the task, in which the output is on
\* either side: 2 for an output voted on in two battles, 0 for one never voted
\* on.
C16_SeenCountExact ==
    [][ (req.pc = "session_counts" /\ req'.pc = "loop" /\ req'.ignored_output_ids = <<>>)
        => \A o \in OutputIds :
              req'.session_voted_outputs[o]
                  = Cardinality(SessionVotesOn(req'.session_id, req'.task, o)) ]_vars

\* The non-skip votes of a task.
NonSkipVotes(task) == { r \in votes : r.vote # "n" /\ prompt_id_to_task(r.prompt_id) = task }

\* C17: the coverage counts a call loads are exact: the count of a system with
\* an output for the task is the number of non-skip votes of the task in which
\* it is system_id_a or system_id_b, the count of a prompt is the number of
\* non-skip votes on it; skip votes are not counted and a key without such a
\* vote reads 0.
C17_CoverageExact ==
    [][ (req.pc = "session_counts" /\ req'.pc = "loop" /\ req'.ignored_output_ids = <<>>)
        => /\ \A o \in StatementTaskOutputs(req'.task) :
                 /\ req'.system_id_to_non_skip_vote_count[o[2]]
                       = Cardinality({ r \in NonSkipVotes(req'.task) :
                                         o[2] \in {r.system_id_a, r.system_id_b} })
                 /\ req'.prompt_id_to_non_skip_vote_count[o[1]]
                       = Cardinality({ r \in NonSkipVotes(req'.task) : r.prompt_id = o[1] })
           /\ \A p \in Prompts :
                 (\A r \in NonSkipVotes(req'.task) : r.prompt_id # p)
                 => req'.prompt_id_to_non_skip_vote_count[p] = 0
           /\ \A x \in Systems :
                 (\A r \in NonSkipVotes(req'.task) : x \notin {r.system_id_a, r.system_id_b})
                 => req'.system_id_to_non_skip_vote_count[x] = 0 ]_vars

\* A call has loaded its counts from a ledger that holds a skip and a non-skip
\* vote of its task: one system has count 1 and another, in the skip only, 0.
C17_Witness ==
    /\ req.pc = "loop" /\ req.num_returned = 0 /\ req.empty_scans = 0
    /\ req.ignored_output_ids = <<>>
    /\ \E r1, r2 \in votes :
          /\ r1.vote = "n" /\ r2.vote # "n"
          /\ prompt_id_to_task(r1.prompt_id) = req.task
          /\ prompt_id_to_task(r2.prompt_id) = req.task
          /\ \E x \in {r1.system_id_a, r1.system_id_b} :
                req.system_id_to_non_skip_vote_count[x] = 0
    /\ \E x \in Systems : req.system_id_to_non_skip_vote_count[x] = 1

\* Prompt prompt_id of the call's task has two outputs, of two systems and with
\* two texts, on which the call's session has never voted.
TwoUnseenOutputs(prompt_id) ==
    \E o1, o2 \in StatementTaskOutputs(req.task) :
        /\ o1[1] = prompt_id /\ o2[1] = prompt_id
        /\ o1[2] # o2[2]
        /\ outputs[o1] # outputs[o2]
        /\ SessionVotesOn(req.session_id, req.task, o1) = {}
        /\ SessionVotesOn(req.session_id, req.task, o2) = {}

\* The ignore-list of the call is the two outputs of one pending battle on
\* prompt_id.
PendingBattleOn(prompt_id) ==
    /\ Len(req.ignored_output_ids) = 2
    /\ req.ignored_output_ids[1][1] = prompt_id
    /\ req.ignored_output_ids[2][1] = prompt_id
    /\ req.ignored_output_ids[1][2] # req.ignored_output_ids[2][2]

\* C18: a call with batch_size 1 whose ignore-list holds the two outputs of a
\* pending battle on prompt P, while another prompt Q of the task has two
\* outputs of different systems and texts the session has never voted on, does
\* not yield a battle on P.
C18_PendingPromptNotRepeated ==
    \A P, Q \in Prompts :
        ( /\ req.pc \in {"loop", "done"}
          /\ req.requested = 1
          /\ req.num_returned = 1
          /\ P # Q
          /\ PendingBattleOn(P)
          /\ prompt_id_to_task(Q) = req.task
          /\ TwoUnseenOutputs(Q) )
        => req.last.prompt_id # P

\* C19: the token of a battle decrypts to the prompt ID and the two system IDs
\* it was made of, whatever the IDs, so that a vote submitted with the token of
\* a served battle is recorded under the battle's prompt, with system_id_a the
\* system of the text shown as output_a and system_id_b that of output_b.
C19_TokenRoundTrip ==
    [][ /\ \A p \in Prompts, a \in Systems, b \in Systems :
              _decrypt_battle_token(_encrypt_as_battle_token(p, a, b))
                  = [ ok |-> TRUE, prompt_id |-> p, system_id_a |-> a, system_id_b |-> b ]
        /\ \A session_id \in Sessions, form \in ValidVoteForms, battle \in ServedBattles("a-es") :
              LET shown == _simplify_battle_object(battle)
              IN  VoteRoute(session_id, TRUE, form, shown.token)
                  => /\ http'.status = 204
                     /\ \E t \in pending' :
                           /\ t.session_id = session_id
                           /\ t.prompt_id = battle.prompt_id
                           /\ outputs[<<t.prompt_id, t.system_id_a>>] = shown.output_a
                           /\ outputs[<<t.prompt_id, t.system_id_b>>] = shown.output_b
        /\ \A t \in pending \ pending' : \E r \in votes' : VoteKey(r) = TaskKey(t) ]_vars

\* The first task of the list whose file does not hold the reference prompt IDs.
FirstMismatch(tasks, files) ==
    CHOOSE i \in DOMAIN tasks :
        /\ files[tasks[i]].prompt_ids # ReferencePromptIds(tasks[i])
        /\ \A j \in 1..(i - 1) : files[tasks[j]].prompt_ids = ReferencePromptIds(tasks[j])

\* C20: ingest_submission accepts a task file only if the set of its prompt IDs
\* is the set of the reference prompt IDs of the task; otherwise it raises an
\* error that reports missing = reference minus submitted and extra = submitted
\* minus reference.  The second part is stated for a call whose system is not
\* in the systems table and whose zip holds a file for each of its tasks.
C20_PromptSetChecked ==
    LET tasks == ingest.tasks
        files == ingest.file.files
    IN  /\ (ingest.source # "none" /\ ingest.raised = NoError)
           => /\ \A i \in DOMAIN tasks : /\ files[tasks[i]].kind = "file"
                                         /\ files[tasks[i]].prompt_ids = ReferencePromptIds(tasks[i])
              /\ \A i \in DOMAIN tasks : \A p \in ReferencePromptIds(tasks[i]) :
                    outputs[<<p, ingest.system_id>>] # NoOutput
        /\ ( /\ ingest.source # "none"
             /\ ingest.system_id \notin systems
             /\ ingest.file.is_zip
             /\ \A i \in DOMAIN tasks : files[tasks[i]].kind = "file"
             /\ \E i \in DOMAIN tasks : files[tasks[i]].prompt_ids # ReferencePromptIds(tasks[i]) )
           => LET task == tasks[FirstMismatch(tasks, files)]
              IN  /\ ingest.raised.type = "ValueError"
                  /\ ingest.raised.task = task
                  /\ ingest.raised.missing = ReferencePromptIds(task) \ files[task].prompt_ids
                  /\ ingest.raised.extra = files[task].prompt_ids \ ReferencePromptIds(task)
                  /\ \A p \in Prompts : outputs[<<p, ingest.system_id>>] = NoOutput

\* C21: ingestion is all-or-nothing per submission: after an ingest_submission
\* call that raised for some task (no file, no regular file, prompt IDs that do
\* not match, or a storage error) the outputs table holds no row of the
\* submission's system, the rows of the tasks processed before the failing one
\* included; and a call that raises, for a task or before its first task,
\* leaves the outputs and systems tables as they were.
C21_AllOrNothing ==
    /\ [](ingest.raised.task # "none"
            => \A p \in Prompts : outputs[<<p, ingest.system_id>>] = NoOutput)
    /\ [][ (ingest' # ingest /\ ingest'.raised # NoError)
            => outputs' = outputs /\ systems' = systems ]_vars

\* The second task of a submission failed with a storage error after the rows
\* of the first task had been written; another system is in the table.
C21_Witness ==
    /\ ingest.source = "src/ingestion"
    /\ Len(ingest.tasks) = 2
    /\ ingest.raised.type = "DBAPIError"
    /\ ingest.raised.task = ingest.tasks[2]
    /\ ingest.file.files[ingest.tasks[1]] = TaskFile(ReferencePromptIds(ingest.tasks[1]), TRUE)
    /\ ingest.system_id \notin systems
    /\ \E o \in OutputIds : outputs[o] # NoOutput

\* C22: a battles request whose task is not one of TASK_CHOICES is refused: the
\* selector is not called for it and no battle is served.
C22_InvalidTaskRefused ==
    [][ \A task_in \in TaskInputs \ TASK_CHOICES, batch_in \in BatchInputs,
           ignored_tokens \in {<<>>, <<TamperedToken>>} :
           BattlesRoute("X", task_in, batch_in, ignored_tokens)
           => /\ req'.pc = "idle"
              /\ req'.total = 0 ]_vars

\* C23: get_votes_per_system gives, for every system with an output for the
\* task, the number of non-skip votes of the task, from sessions that are not
\* excluded, in which the system is system_id_a or system_id_b, each vote
\* counted once, and 0 for a system without such a vote.
C23_VotesPerSystemExact ==
    \A task \in {"a-en", "a-es"}, excluded_session_ids \in SUBSET Sessions :
        \A x \in get_systems(task) :
            get_votes_per_system(task, excluded_session_ids)[x]
                = Cardinality({ r \in VotesAndPrompts(task, excluded_session_ids) :
                                  x \in {r.system_id_a, r.system_id_b} })

\* C26: among the votes get_votes_for_scoring returns, every system of a
\* returned vote is system_id_a of a returned vote and system_id_b of a
\* returned vote, and no returned vote is a skip or from an excluded session.
C26_BothSidesAmongReturned ==
    \A task \in {"a-en", "a-es"}, excluded_session_ids \in SUBSET Sessions :
        LET returned == get_votes_for_scoring(task, excluded_session_ids)
        IN  /\ \A v \in returned : /\ v.vote # "n"
                                   /\ v.session_id \notin excluded_session_ids
            /\ \A v \in returned : \A x \in {v.system_id_a, v.system_id_b} :
                   /\ \E w \in returned : w.system_id_a = x
                   /\ \E w \in returned : w.system_id_b = x

\* C24: the outputs of ignored_output_ids are counted as voted: when a call
\* starts with the two outputs (P,S1) and (P,S2) of one pending battle in its
\* ignore-list, its four counter maps are the loaded ones changed as the
\* simulated vote on the battle (P,S1,S2) changes them.
C24_IgnoredAsSimulatedVote ==
    \A P \in Prompts :
        ( /\ req.pc = "loop"
          /\ req.num_returned = 0
          /\ PendingBattleOn(P) )
        => Counters(req) = SimulateVote(LoadCounters(req.session_id, req.task), P,
                                        req.ignored_output_ids[1][2],
                                        req.ignored_output_ids[2][2])

\* C25: before the ignore-list is merged, the count a call computes for the
\* session and a prompt of the task (the session's per-output counts of the
\* prompt, summed and halved) is the number of votes the session has cast on
\* battles of the prompt, whatever votes the session has cast.
C25_SessionPromptCountExact ==
    req.pc = "loop"
    => \A p \in Prompts :
          prompt_id_to_task(p) = req.task
          => LoadCounters(req.session_id, req.task).session_voted_prompts[p]
                = Cardinality({ r \in votes : /\ r.session_id = req.session_id
                                              /\ r.prompt_id = p })

\* The places of the submissions of a user in a list of submissions.
PlacesOf(user, submissions) == { i \in 1..Len(submissions) : submissions[i].user = user }

\* The last place of a non-empty set of places.
LastPlace(places) == CHOOSE i \in places : \A j \in places : j <= i

\* C27: the script runs to its loop without an exception, and
\* submissions_to_ingest holds exactly one submission of each user that has a
\* valid CodaBench submission or a zip under submissions/: the one made from
\* the user's zip, whose ID is the index of the zip in the directory listing,
\* when there is one, and else the user's valid CodaBench submission of
\* largest ID.
C27_LastPerUserAndSkip ==
    script.pc # "idle" =>
       /\ script.raised = NoException
       /\ \A user \in {"S1", "S2", "S3"} :
             LET valid == ValidSubmissions(script.all_submissions)
                 places == PlacesOf(user, valid)
                 zips == { i \in 1..Len(script.listdir.entries) :
                             /\ IsManualZip(script.listdir.entries[i])
                             /\ script.listdir.entries[i].name = user }
                 kept == PlacesOf(user, script.submissions_to_ingest)
             IN  (places # {} \/ zips # {}) =>
                    /\ Cardinality(kept) = 1
                    /\ \A i \in kept :
                          IF zips # {}
                          THEN script.submissions_to_ingest[i].id = LastPlace(zips) - 1
                          ELSE script.submissions_to_ingest[i] = valid[LastPlace(places)]

\* Some output of the call's task has a partner.
TaskHasPartner == \E o \in StatementTaskOutputs(req.task) : HasValidPartner(o)

\* C28: a call for a task in which some output has a partner (same prompt,
\* another system, another text) yields batch_size battles from the selector,
\* whatever the ledger and the ignore-list hold, and asks random_battles for
\* none.
C28_FullBatchWithoutPadding ==
    /\ [](req.pc = "done" /\ TaskHasPartner
            => /\ req.num_returned = req.requested
               /\ req.random = {}
               /\ req.total = req.requested)
    /\ ((req.pc = "loop" /\ TaskHasPartner)
            ~> (req.pc = "done" /\ req.num_returned = req.requested))

\* A call of two battles is over, with an ignore-list, for a session that had
\* voted on every output of the prompt of the last battle.
C28_Witness ==
    /\ req.pc = "done"
    /\ req.requested = 2
    /\ req.num_returned = 2
    /\ req.ignored_output_ids # <<>>
    /\ \A o \in StatementTaskOutputs(req.task) :
          o[1] = req.last.prompt_id => SessionVotesOn(req.session_id, req.task, o) # {}
    /\ TaskHasPartner

\* The session ID the claim gives to a request: Prolific-derived when both
\* parameters are there, else the id cookie when there is one, else a
\* generated ID.
ClaimedSessionIds(scope) ==
    IF Truthy(scope.PROLIFIC_PID) /\ Truthy(scope.SESSION_ID)
    THEN {ProlificSessionId(scope.PROLIFIC_PID, scope.SESSION_ID)}
    ELSE IF Truthy(scope.id) THEN {scope.id} ELSE GeneratedIds

\* C29: the session ID under which a request reads the ledger or records a vote
\* is the ID of the id cookie of its response; it is the Prolific-derived ID
\* when both parameters are given, else the id cookie of the request when it has
\* one, else a generated ID; a client that returns the cookie of a response, and
\* sends no Prolific parameters, is served under the session of that response.
C29_SessionIsCookie ==
    /\ [](\A path \in Paths :
            /\ conn[path].stage # "none"
                 => conn[path].state.session_id \in ClaimedSessionIds(conn[path])
            /\ conn[path].stage = "response"
                 => conn[path].set_cookie.id = conn[path].state.session_id)
    /\ [](req.pc # "idle" => req.session_id = conn["/battles"].state.session_id)
    /\ [][ /\ (conn["/battles"].stage = "request" /\ conn'["/battles"].stage = "response")
                => conn'["/battles"].set_cookie.id = req.session_id
           /\ \A task \in pending' \ pending :
                 /\ conn'["/vote"].stage = "response"
                 /\ task.session_id = conn'["/vote"].set_cookie.id
           /\ \A path \in Paths, from \in Paths :
                 ( /\ conn'[path] # conn[path]
                   /\ conn'[path].stage = "request"
                   /\ conn[from].stage = "response"
                   /\ conn'[path].id = conn[from].set_cookie.id
                   /\ ~(Truthy(conn'[path].PROLIFIC_PID) /\ Truthy(conn'[path].SESSION_ID)) )
                 => conn'[path].state.session_id = conn[from].state.session_id ]_vars

\* A client without cookie and Prolific parameters was given a generated ID by
\* the response to its battles request and returned it with its vote, which
\* is in the ledger under that ID; the vote of a client whose first request
\* carried a cookie of its own is in the ledger under that cookie.
C29_Witness ==
    /\ conn["/battles"].stage = "response"
    /\ ~Truthy(conn["/battles"].id)
    /\ conn["/battles"].set_cookie.id \in GeneratedIds
    /\ conn["/vote"].stage = "response"
    /\ conn["/vote"].id = conn["/battles"].set_cookie.id
    /\ \E r \in votes : r.session_id = conn["/battles"].set_cookie.id
    /\ \E r \in votes : r.session_id = "X"

\* The form lacks one of the three fields of a vote.
LacksField(form) ==
    \E key \in {"vote", "is_offensive_a", "is_offensive_b"} : form[key] = NoField

\* The step answers 204, schedules no add_vote and leaves the ledger as it was.
SuccessWithoutEffect ==
    /\ http'.status = 204
    /\ pending' = pending
    /\ votes' = votes

\* C30: a POST /vote that lacks one of the fields vote, is_offensive_a and
\* is_offensive_b schedules no add_vote and leaves the ledger as it was,
\* whatever its token, the token of a served battle included; it is answered
\* 204 when it passes the turnstile and 403 when it does not.
C30_IncompleteFormIgnored ==
    [][ \A turnstile \in BOOLEAN :
           \/ /\ http'.status = IF turnstile THEN 204 ELSE 403
              /\ pending' = pending
              /\ votes' = votes
           \/ \A token \in VoteTokens, form \in { f \in VoteForms : LacksField(f) },
                 session_id \in Sessions :
                 ~VoteRoute(session_id, turnstile, form, token) ]_vars

\* C30 as stated: every POST /vote that lacks one of the three fields is
\* answered 204, schedules no add_vote and leaves the ledger as it was: a step
\* that does otherwise is not the handling of such a request.
C30_IncompleteFormAnswered204 ==
    [][ SuccessWithoutEffect
        \/ \A session_id \in Sessions, turnstile \in BOOLEAN, form \in VoteForms, token \in VoteTokens :
              LacksField(form) => ~VoteRoute(session_id, turnstile, form, token) ]_vars

\* A request has been answered 204 and no vote was scheduled or recorded.
C30_Witness == http.status = 204 /\ pending = {} /\ votes = {}
====
